---- MODULE Spec2Model ----
(***************************************************************************)
(* A model of the parallel-corpus cleaning units of yimt:                  *)
(*   src/yimt/corpus/filters.py      the Filter family                     *)
(*   src/yimt/corpus/normalizers.py  the Normalizer family                 *)
(*                                                                         *)
(* A string is a sequence of Unicode code points (naturals).  A call       *)
(* returns a record [kind, val, exc]:                                      *)
(*   kind = "None"   the filter discarded the pair        val = <<>>       *)
(*   kind = "pair"   the filter returned a pair           val = <<s, t>>   *)
(*   kind = "text"   the normalizer returned a string     val = <<s>>      *)
(*   kind = "raise"  the call raised the exception exc    val = <<>>       *)
(***************************************************************************)
EXTENDS Integers, Sequences, FiniteSets, TLC

VARIABLES
    src,        \* source side of the pair handed to a filter
    tgt,        \* target side of the pair handed to a filter
    text,       \* the string handed to a normalizer
    op,         \* the class whose method was called last, "none" before any call
    conf,       \* the configuration the called instance was constructed with
    result,     \* what the last call returned or raised
    stream,     \* pipeline: the input pairs, in order
    chain,      \* pipeline: the ordered filter instances
    pos,        \* pipeline: index of the pair being processed
    step,       \* pipeline: index of the next filter to apply to that pair
    output,     \* pipeline: the pairs written so far
    calls,      \* pipeline: the filter calls made so far, <<pair index, filter index>>
    passes,     \* how many times the normalizer was applied, its output fed back in
    inst,       \* shared instance: the attributes of the object the threads call
    threads,    \* shared instance: each calling thread's position, argument, result
    train       \* training dataset: the files, the call of make_training_dataset, its output

vars == <<src, tgt, text, op, conf, result, stream, chain, pos, step, output, calls,
          passes, inst, threads, train>>

callVars == <<src, tgt, text, op, conf, result, passes>>
pipeVars == <<stream, chain, pos, step, output, calls>>
threadVars == <<inst, threads>>

----------------------------------------------------------------------------
(* Bounds of the model *)

MaxLen == 2
MaxTextLen == 4
MaxStream == 2
MaxChain == 2
MaxThreads == 2
MaxCalls == 2
MaxExamples == 2
MaxRounds == 1

----------------------------------------------------------------------------
(* Characters.  The named code points are the ones the inputs are drawn from. *)

Ch == [ nul |-> 0, tab |-> 9, lf |-> 10, us |-> 31, sp |-> 32, dquote |-> 34,
        lparen |-> 40, rparen |-> 41, one |-> 49,
        A |-> 65, S |-> 83, a |-> 97, b |-> 98, s |-> 115, x |-> 120,
        del |-> 127, nbsp |-> 160, eszett |-> 223, y_diaeresis |-> 255, dotless_i |-> 305,
        ideosp |-> 12288, ni |-> 20320, hao |-> 22909, shi |-> 19990, jie |-> 30028,
        guo_hant |-> 22283, guo_hans |-> 22269 ]

\* The character operators below are defined on ASCII, Latin-1, dotless i, the
\* upper cases of y with diaeresis and of the micro sign (capital Y with
\* diaeresis, capital and small mu), the Unicode white space, the bracket
\* characters of punct_pairs and the CJK unified ideographs; every input is
\* drawn from these, and str.lower() and str.upper() stay inside them.

\* str.isspace() of one character; str.strip(), str.split() and re's \s use it
IsSpace(c) == c \in ((9..13) \cup (28..32) \cup {133, 160, 5760} \cup (8192..8202)
                     \cup {8232, 8233, 8239, 8287, 12288})

RECURSIVE LStrip(_)
LStrip(s) == IF Len(s) > 0 /\ IsSpace(Head(s)) THEN LStrip(Tail(s)) ELSE s

RECURSIVE RStrip(_)
RStrip(s) == IF Len(s) > 0 /\ IsSpace(s[Len(s)])
             THEN RStrip(SubSeq(s, 1, Len(s) - 1)) ELSE s

\* str.strip()
Strip(s) == RStrip(LStrip(s))

\* str.lower() of one character (on Universe no character lowers to several)
LowerChar(c) == IF c \in 65..90 THEN <<c + 32>>
                ELSE IF c \in (192..222) \ {215} THEN <<c + 32>>
                ELSE IF c = 376 THEN <<255>>
                ELSE IF c = 924 THEN <<956>>
                ELSE <<c>>

\* str.upper() of one character: sharp s becomes "SS", dotless i becomes "I"
UpperChar(c) == IF c \in 97..122 THEN <<c - 32>>
                ELSE IF c = 223 THEN <<83, 83>>
                ELSE IF c = 181 THEN <<924>>
                ELSE IF c = 956 THEN <<924>>
                ELSE IF c = 255 THEN <<376>>
                ELSE IF c = 305 THEN <<73>>
                ELSE IF c \in (224..254) \ {247} THEN <<c - 32>>
                ELSE <<c>>

RECURSIVE Lower(_)
Lower(s) == IF s = <<>> THEN <<>> ELSE LowerChar(Head(s)) \o Lower(Tail(s))

RECURSIVE Upper(_)
Upper(s) == IF s = <<>> THEN <<>> ELSE UpperChar(Head(s)) \o Upper(Tail(s))

\* the set of characters occurring in s
Chars(s) == {s[i] : i \in 1..Len(s)}

\* the number of positions of s holding c
Count(s, c) == Cardinality({i \in 1..Len(s) : s[i] = c})

\* str.split(): the maximal runs of non-white-space characters
RECURSIVE SplitWsFrom(_, _)
SplitWsFrom(s, cur) ==
    IF s = <<>> THEN (IF cur = <<>> THEN <<>> ELSE <<cur>>)
    ELSE IF IsSpace(Head(s))
         THEN (IF cur = <<>> THEN <<>> ELSE <<cur>>) \o SplitWsFrom(Tail(s), <<>>)
         ELSE SplitWsFrom(Tail(s), Append(cur, Head(s)))

SplitWs(s) == SplitWsFrom(s, <<>>)

\* str.split(sep) for a one-character separator: n separators give n+1 fields
RECURSIVE SplitOnFrom(_, _, _)
SplitOnFrom(s, sep, cur) ==
    IF s = <<>> THEN <<cur>>
    ELSE IF Head(s) = sep THEN <<cur>> \o SplitOnFrom(Tail(s), sep, <<>>)
         ELSE SplitOnFrom(Tail(s), sep, Append(cur, Head(s)))

SplitOn(s, sep) == SplitOnFrom(s, sep, <<>>)

\* str.find(w) # -1: w occurs in s as a contiguous substring
Contains(s, w) == \E i \in 0..(Len(s) - Len(w)) : SubSeq(s, i + 1, i + Len(w)) = w

Max(S) == CHOOSE m \in S : \A n \in S : n <= m

----------------------------------------------------------------------------
(* What a call returns *)

None == [kind |-> "None", val |-> <<>>, exc |-> ""]
Pair(s, t) == [kind |-> "pair", val |-> <<s, t>>, exc |-> ""]
Text(s) == [kind |-> "text", val |-> <<s>>, exc |-> ""]
Raise(e) == [kind |-> "raise", val |-> <<>>, exc |-> e]

NoConf == [class |-> "none"]
NoResult == [kind |-> "none", val |-> <<>>, exc |-> ""]
NoTraining == [phase |-> "none"]

----------------------------------------------------------------------------
(* Numbers.  A threshold or ratio is a rational [num, den] with den > 0; the   *)
(* code compares Python floats, which for these small operands order exactly  *)
(* as the rationals do.                                                       *)

Q(n, d) == [num |-> n, den |-> d]

QLess(p, q) == p.num * q.den < q.num * p.den

----------------------------------------------------------------------------
(* yimt.corpus.utils and yimt.api.utils: the text utilities the filters and   *)
(* normalizers import.                                                        *)

\* is_ascii_char(c): c is an ASCII character
is_ascii_char(c) == c < 128

\* is_ascii(s): every character of s is ASCII
is_ascii(s) == \A i \in 1..Len(s) : is_ascii_char(s[i])

\* a CJK unified ideograph
IsHan(c) == c \in 19968..40959

\* has_zh(s): s contains a CJK unified ideograph
has_zh(s) == \E i \in 1..Len(s) : IsHan(s[i])

\* hant_2_hans on one character: Traditional to Simplified
HansChar(c) == IF c = Ch.guo_hant THEN Ch.guo_hans ELSE c

\* hant_2_hans(s): character by character, nothing added or dropped
hant_2_hans(s) == [i \in 1..Len(s) |-> HansChar(s[i])]

\* detect_lang(s): the language-detection collaborator, one stable code per text
detect_lang(s) == IF has_zh(s) THEN "zh" ELSE "en"

----------------------------------------------------------------------------
(* Unicode properties read by the regex patterns of filters.py *)

\* \p{Alphabetic}
IsAlphabetic(c) == \/ c \in (65..90) \cup (97..122)
                   \/ c \in {170, 181, 186} \cup ((192..255) \ {215, 247}) \cup {305}
                   \/ c \in {376, 924, 956}
                   \/ IsHan(c)

\* the Script values regex.compile knows, as far as the filters name them; any
\* other value (a language code such as "zh") makes regex.compile raise regex.error
ScriptNames == {"Han", "Latin", "Hangul", "Arabic", "Thai"}

\* \p{Script=name} on the characters of the model (none is Hangul, Arabic or Thai)
InScript(c, name) ==
    CASE name = "Latin" -> c \in (65..90) \cup (97..122) \cup {170, 186}
                                 \cup ((192..255) \ {215, 247}) \cup {305, 376}
      [] name = "Han"   -> IsHan(c)
      [] OTHER          -> FALSE

\* [a-zA-Z0-9]
IsEnWordChar(c) == c \in (48..57) \cup (65..90) \cup (97..122)

\* \s of the regex module: the White_Space property
IsWhiteSpace(c) == c \in ((9..13) \cup {32, 133, 160, 5760} \cup (8192..8202)
                          \cup {8232, 8233, 8239, 8287, 12288})

----------------------------------------------------------------------------
(* difflib.SequenceMatcher(None, a, b).ratio() *)

\* __chain_b with autojunk: in a b of 200 elements or more, every element that
\* occurs more than len(b) // 100 + 1 times is popular and is left out of b2j
bpopular(b) ==
    IF Len(b) >= 200
    THEN {b[n] : n \in {m \in 1..Len(b) :
              Cardinality({j \in 1..Len(b) : b[j] = b[m]}) > Len(b) \div 100 + 1}}
    ELSE {}

\* length of the run of equal elements of b2j that starts at a[i] and b[j] and
\* stays inside a[..ahi] and b[..bhi]
RECURSIVE RunLen(_, _, _, _, _, _, _)
RunLen(a, b, i, j, ahi, bhi, popular) ==
    IF i <= ahi /\ j <= bhi /\ a[i] = b[j] /\ b[j] \notin popular
    THEN 1 + RunLen(a, b, i + 1, j + 1, ahi, bhi, popular) ELSE 0

\* the first extension loop: equal elements before a[besti] and b[bestj]
\* (offsets from 0), popular or not, down to alo and blo
RECURSIVE ExtendBack(_, _, _, _, _, _)
ExtendBack(a, b, besti, bestj, alo, blo) ==
    IF besti > alo /\ bestj > blo /\ a[besti] = b[bestj]
    THEN 1 + ExtendBack(a, b, besti - 1, bestj - 1, alo, blo) ELSE 0

\* the second extension loop: equal elements from a[i] and b[j] (offsets from 0,
\* the first elements after the match) up to ahi and bhi
RECURSIVE ExtendForward(_, _, _, _, _, _)
ExtendForward(a, b, i, j, ahi, bhi) ==
    IF i < ahi /\ j < bhi /\ a[i + 1] = b[j + 1]
    THEN 1 + ExtendForward(a, b, i + 1, j + 1, ahi, bhi) ELSE 0

\* find_longest_match(alo, ahi, blo, bhi), offsets from 0 as in the code: the
\* longest run of elements of b2j, the earliest in a, then in b ((alo, blo, 0)
\* when there is none), extended on both ends over equal elements
find_longest_match(a, b, alo, ahi, blo, bhi, popular) ==
    LET starts == ((alo + 1)..ahi) \X ((blo + 1)..bhi)
        size   == Max({RunLen(a, b, c[1], c[2], ahi, bhi, popular) : c \in starts}
                      \cup {0})
        hits   == {c \in starts : RunLen(a, b, c[1], c[2], ahi, bhi, popular) = size}
        i      == IF size = 0 THEN alo
                  ELSE (CHOOSE m \in {c[1] : c \in hits} :
                            \A c \in hits : m <= c[1]) - 1
        j      == IF size = 0 THEN blo
                  ELSE (CHOOSE m \in {c[2] : c \in {h \in hits : h[1] = i + 1}} :
                            \A c \in hits : c[1] = i + 1 => m <= c[2]) - 1
        back   == ExtendBack(a, b, i, j, alo, blo)
        fwd    == ExtendForward(a, b, i + size, j + size, ahi, bhi)
    IN  <<i - back, j - back, back + size + fwd>>

\* find_longest_match() over all of a and b: <<i, j, k>>, positions from 1
LongestMatch(a, b) ==
    LET m == find_longest_match(a, b, 0, Len(a), 0, Len(b), bpopular(b))
    IN  <<m[1] + 1, m[2] + 1, m[3]>>

\* get_matching_blocks: the summed size of the blocks of a[alo:ahi] and b[blo:bhi],
\* the longest and those of the two queued ranges left and right of it
RECURSIVE MatchesIn(_, _, _, _, _, _, _)
MatchesIn(a, b, alo, ahi, blo, bhi, popular) ==
    LET m == find_longest_match(a, b, alo, ahi, blo, bhi, popular)
        i == m[1]
        j == m[2]
        k == m[3]
    IN  IF k = 0 THEN 0
        ELSE k + (IF alo < i /\ blo < j
                  THEN MatchesIn(a, b, alo, i, blo, j, popular) ELSE 0)
               + (IF i + k < ahi /\ j + k < bhi
                  THEN MatchesIn(a, b, i + k, ahi, j + k, bhi, popular) ELSE 0)

\* sum(triple[-1] for triple in self.get_matching_blocks())
Matches(a, b) == MatchesIn(a, b, 0, Len(a), 0, Len(b), bpopular(b))

\* ratio(): 2.0 * matches / length, 1.0 when both are empty
SeqRatio(a, b) == IF Len(a) + Len(b) = 0 THEN Q(1, 1)
                  ELSE Q(2 * Matches(a, b), Len(a) + Len(b))

----------------------------------------------------------------------------
(* filters.py *)

\* SameFilter.filter returning the trimmed sides it compared
SameFilterTrimmed(c, s, t) ==
    IF c.lower
    THEN (IF Lower(Strip(s)) = Lower(Strip(t)) THEN None ELSE Pair(Strip(s), Strip(t)))
    ELSE (IF Strip(s) = Strip(t) THEN None ELSE Pair(Strip(s), Strip(t)))

\* SameFilter.filter with the test inverted: pairs that differ are discarded
SameFilterInverted(c, s, t) ==
    IF c.lower
    THEN (IF Lower(Strip(s)) # Lower(Strip(t)) THEN None ELSE Pair(s, t))
    ELSE (IF Strip(s) # Strip(t) THEN None ELSE Pair(s, t))

SameFilter(c, s, t) ==
    IF c.lower
    THEN (IF Lower(Strip(s)) = Lower(Strip(t)) THEN None ELSE Pair(s, t))
    ELSE (IF Strip(s) = Strip(t) THEN None ELSE Pair(s, t))

HasZhFilter(c, s, t) ==
    IF c.filter_src
    THEN (IF has_zh(s) THEN None ELSE Pair(s, t))
    ELSE (IF has_zh(t) THEN None ELSE Pair(s, t))

\* OverlapFilter.filter rejecting a similarity equal to the ratio as well
OverlapFilterExclusive(c, s, t) ==
    IF ~QLess(SeqRatio(s, t), c.ratio) THEN None ELSE Pair(s, t)

OverlapFilter(c, s, t) ==
    IF QLess(c.ratio, SeqRatio(s, t)) THEN None ELSE Pair(s, t)

\* EmptyFilter.filter without the strip: only a zero-length side is empty
EmptyFilterNoStrip(c, s, t) ==
    IF Len(s) = 0 \/ Len(t) = 0 THEN None ELSE Pair(s, t)

EmptyFilter(c, s, t) ==
    IF Len(Strip(s)) = 0 \/ Len(Strip(t)) = 0 THEN None ELSE Pair(s, t)

AllASCII(c, s, t) ==
    IF is_ascii(s) /\ is_ascii(t) THEN None ELSE Pair(s, t)

n_ascii(s) == Cardinality({i \in 1..Len(s) : is_ascii_char(s[i])})

\* ASCIIRatioFilter.filter checking both sides whatever the flags say
ASCIIRatioFilterBothSides(c, s, t) ==
    IF Len(s) = 0 THEN Raise("ZeroDivisionError")
    ELSE IF QLess(c.threshold, Q(n_ascii(s), Len(s))) THEN None
    ELSE IF Len(t) = 0 THEN Raise("ZeroDivisionError")
    ELSE IF QLess(c.threshold, Q(n_ascii(t), Len(t))) THEN None
    ELSE Pair(s, t)

\* n_ascii(x)/len(x) divides by zero on an empty side that is checked
ASCIIRatioFilter(c, s, t) ==
    IF c.filter_src /\ Len(s) = 0 THEN Raise("ZeroDivisionError")
    ELSE IF c.filter_src /\ QLess(c.threshold, Q(n_ascii(s), Len(s))) THEN None
    ELSE IF c.filter_tgt /\ Len(t) = 0 THEN Raise("ZeroDivisionError")
    ELSE IF c.filter_tgt /\ QLess(c.threshold, Q(n_ascii(t), Len(t))) THEN None
    ELSE Pair(s, t)

LangFilter(c, s, t) ==
    IF detect_lang(s) # c.src_lang \/ detect_lang(t) # c.tgt_lang
    THEN None ELSE Pair(s, t)

\* a length function: len, or LengthFilter.space_sep_len_f
LenFn(f, s) == IF f = "space_sep_len_f" THEN Len(SplitWs(s)) ELSE Len(s)

\* the bounds tests with a length equal to a bound counted as outside
OutOfRangeExclusive(c, src_len, tgt_len) ==
    \/ \E m \in c.src_min_len : src_len <= m
    \/ \E m \in c.src_max_len : src_len >= m
    \/ \E m \in c.tgt_min_len : tgt_len <= m
    \/ \E m \in c.tgt_max_len : tgt_len >= m

\* a bound is a set: {} for None, {n} for n
OutOfRange(c, src_len, tgt_len) ==
    \/ \E m \in c.src_min_len : src_len < m
    \/ \E m \in c.src_max_len : src_len > m
    \/ \E m \in c.tgt_min_len : tgt_len < m
    \/ \E m \in c.tgt_max_len : tgt_len > m

LenFilter(c, s, t) ==
    IF OutOfRange(c, LenFn(c.src_len_fn, s), LenFn(c.tgt_len_fn, t))
    THEN None ELSE Pair(s, t)

(* ratio * len is a product of doubles.  A double is kept as its 53 binary   *)
(* digits, the most significant first, and the exponent of the last of them: *)
(* [mant |-> digits, exp |-> e] is the number digits * 2^e.                  *)

\* the binary digits of a natural number n < 2^30, the most significant first
Bits(n) ==
    LET size == CHOOSE m \in 0..30 : n < 2^m /\ (m = 0 \/ 2^(m - 1) <= n)
    IN  [m \in 1..size |-> (n \div 2^(size - m)) % 2]

\* the next k binary digits of rem / d < 1, and the remainder left after them
\* (long division, the first half of the digits and then the second)
RECURSIVE Digits(_, _, _)
Digits(rem, d, k) ==
    IF k = 0 THEN [bits |-> <<>>, rem |-> rem]
    ELSE IF k = 1 THEN [bits |-> <<(2 * rem) \div d>>, rem |-> (2 * rem) % d]
    ELSE CHOOSE r \in
             {[bits |-> part[1].bits \o part[2].bits, rem |-> part[2].rem] :
                  part \in {<<first, Digits(first.rem, d, k - k \div 2)>> :
                               first \in {Digits(rem, d, k \div 2)}}} : TRUE

\* the zeros between the binary point and the first 1 of rem / d, 0 < rem < d
LeadingZeros(rem, d) == CHOOSE z \in 0..30 : rem * 2^z < d /\ d <= rem * 2^(z + 1)

\* binary digits plus one
Increment(bits) ==
    LET zeros == {m \in 1..Len(bits) : bits[m] = 0}
    IN  IF zeros = {} THEN <<1>> \o [m \in 1..Len(bits) |-> 0]
        ELSE [m \in 1..Len(bits) |->
                 IF m < Max(zeros) THEN bits[m] ELSE IF m = Max(zeros) THEN 1 ELSE 0]

\* round to nearest, ties to even: the double of the number bits * 2^exp, where
\* bits starts with a 1, has 53 digits or more and `inexact` says that the
\* number has further non-zero digits after them
RoundToDouble(bits, exp, inexact) ==
    LET dropped == Len(bits) - 53
        kept    == SubSeq(bits, 1, 53)
        sticky  == inexact \/ \E n \in 55..Len(bits) : bits[n] = 1
        up      == dropped > 0 /\ bits[54] = 1 /\ (sticky \/ kept[53] = 1)
        sum     == IF up THEN Increment(kept) ELSE kept
    IN  IF Len(sum) = 54 THEN [mant |-> SubSeq(sum, 1, 53), exp |-> exp + dropped + 1]
        ELSE [mant |-> sum, exp |-> exp + dropped]

\* the double of the literal n / d, for n > 0 and d > 0
FloatOf(n, d) ==
    LET whole == Bits(n \div d)
        zeros == IF whole = <<>> THEN LeadingZeros(n, d) ELSE 0
        frac  == Digits((n % d) * 2^zeros, d, 54 - Len(whole))
    IN  RoundToDouble(whole \o frac.bits, Len(whole) - zeros - 54, frac.rem # 0)

\* binary digits times a natural number k, plus carry: as many digits as bits
\* has, and the carry out of them (the low half of the digits first)
RECURSIVE Times(_, _, _)
Times(bits, k, carry) ==
    IF Len(bits) = 0 THEN [bits |-> <<>>, carry |-> carry]
    ELSE IF Len(bits) = 1
    THEN [bits |-> <<(bits[1] * k + carry) % 2>>, carry |-> (bits[1] * k + carry) \div 2]
    ELSE LET half == Len(bits) \div 2
         IN  CHOOSE r \in
                 {[bits |-> part[2].bits \o part[1].bits, carry |-> part[2].carry] :
                      part \in {<<low, Times(SubSeq(bits, 1, half), k, low.carry)>> :
                                   low \in {Times(SubSeq(bits, half + 1, Len(bits)),
                                                  k, carry)}}} : TRUE

\* float.__mul__ with an int k > 0: the exact product, rounded
FloatTimes(f, k) ==
    LET product == Times(f.mant, k, 0)
    IN  RoundToDouble(Bits(product.carry) \o product.bits, f.exp, FALSE)

\* int <= float for a natural number n < 2^53 and a positive double f
IntLeqFloat(n, f) ==
    LET digits == Bits(n)
        padded == digits \o [m \in 1..(53 - Len(digits)) |-> 0]
    IN  \/ n = 0
        \/ Len(digits) < 53 + f.exp
        \/ /\ Len(digits) = 53 + f.exp
           /\ \/ padded = f.mant
              \/ \E m \in 1..53 : /\ padded[m] < f.mant[m]
                                  /\ \A j \in 1..(m - 1) : padded[j] = f.mant[j]

\* n / d and its product with k are doubles without rounding
ExactProduct(r, k) == r.den > 0 /\ r.num * k < 2^30 /\ \E e \in 0..30 : r.den = 2^e

\* ratio * k as the code computes it: the rational itself where no rounding
\* happens (or the product is not positive), the rounded double elsewhere
Product(r, k) ==
    IF r.num <= 0 \/ k = 0 \/ ExactProduct(r, k) THEN Q(r.num * k, r.den)
    ELSE FloatTimes(FloatOf(r.num, r.den), k)

IsDouble(p) == "mant" \in DOMAIN p

\* int == float for a natural number n < 2^53 and a positive double f
IntIsFloat(n, f) ==
    LET digits == Bits(n)
    IN  /\ Len(digits) = 53 + f.exp
        /\ digits \o [m \in 1..(53 - Len(digits)) |-> 0] = f.mant

\* len_a <= ratio * len_b
WithinRatio(r, len_a, len_b) ==
    LET product == Product(r, len_b)
    IN  IF IsDouble(product) THEN IntLeqFloat(len_a, product)
        ELSE len_a * product.den <= product.num

\* LenDiffFilter.filter testing one direction only
LenDiffFilterOneWay(c, s, t) ==
    IF WithinRatio(c.ratio, LenFn(c.src_len_fn, s), LenFn(c.tgt_len_fn, t))
    THEN Pair(s, t) ELSE None

LenDiffFilter(c, s, t) ==
    LET len_src == LenFn(c.src_len_fn, s)
        len_tgt == LenFn(c.tgt_len_fn, t)
    IN  IF WithinRatio(c.ratio, len_src, len_tgt) /\ WithinRatio(c.ratio, len_tgt, len_src)
        THEN Pair(s, t) ELSE None

\* LengthFilter.filter without its bounds tests
LengthFilterRatioOnly(c, s, t) ==
    LET src_len == LenFn(c.src_len_fn, s)
        tgt_len == LenFn(c.tgt_len_fn, t)
    IN  IF WithinRatio(c.ratio, src_len, tgt_len) /\ WithinRatio(c.ratio, tgt_len, src_len)
        THEN Pair(s, t) ELSE None

LengthFilter(c, s, t) ==
    LET src_len == LenFn(c.src_len_fn, s)
        tgt_len == LenFn(c.tgt_len_fn, t)
    IN  IF OutOfRange(c, src_len, tgt_len) THEN None
        ELSE IF WithinRatio(c.ratio, src_len, tgt_len) /\ WithinRatio(c.ratio, tgt_len, src_len)
             THEN Pair(s, t) ELSE None

\* max([len(w) for w in x.split()]) > m; max() of no token raises ValueError
LongWordFilter(c, s, t) ==
    LET longest(x) == Max({Len(SplitWs(x)[i]) : i \in 1..Len(SplitWs(x))})
    IN  IF c.src_max_len = {} /\ c.tgt_max_len = {} THEN Pair(s, t)
        ELSE IF c.src_max_len # {} /\ SplitWs(s) = <<>> THEN Raise("ValueError")
        ELSE IF \E m \in c.src_max_len : longest(s) > m THEN None
        ELSE IF c.tgt_max_len # {} /\ SplitWs(t) = <<>> THEN Raise("ValueError")
        ELSE IF \E m \in c.tgt_max_len : longest(t) > m THEN None
        ELSE Pair(s, t)

\* AlphabetRatioFilter.score: [num, den]; den = 0 is the division by zero
AlphabetScore(c, s) ==
    LET segment == IF c.exclude_whitespace
                   THEN SelectSeq(s, LAMBDA ch : ~IsWhiteSpace(ch)) ELSE s
        alphas  == SelectSeq(s, IsAlphabetic)
    IN  Q(Len(alphas), Len(segment))

AlphabetRatioFilter(c, s, t) ==
    IF AlphabetScore(c, s).den = 0 THEN Raise("ZeroDivisionError")
    ELSE IF QLess(AlphabetScore(c, s), c.threshold) THEN None
    ELSE IF AlphabetScore(c, t).den = 0 THEN Raise("ZeroDivisionError")
    ELSE IF QLess(AlphabetScore(c, t), c.threshold) THEN None
    ELSE Pair(s, t)

\* CharacterRatioFilter.score giving 1.0 to a sentence without alphabetic character
CharacterScoreVacuous(c, sent, idx) ==
    LET alphas == SelectSeq(sent, IsAlphabetic)
        script == SelectSeq(alphas, LAMBDA ch : InScript(ch, c.scripts[idx]))
    IN  IF alphas # <<>> THEN Q(Len(script), Len(alphas)) ELSE Q(1, 1)

\* CharacterRatioFilter.score: 0.0 when sent has no alphabetic character
CharacterScore(c, sent, idx) ==
    LET alphas == SelectSeq(sent, IsAlphabetic)
        script == SelectSeq(alphas, LAMBDA ch : InScript(ch, c.scripts[idx]))
    IN  IF alphas # <<>> THEN Q(Len(script), Len(alphas)) ELSE Q(0, 1)

\* score(sent, idx) reads re_not_script[idx] once sent has an alphabetic character
ScoreRaises(c, sent, idx) ==
    SelectSeq(sent, IsAlphabetic) # <<>> /\ idx > Len(c.scripts)

\* a short thresholds list is read only when filter gets to it: IndexError
CharacterRatioFilter(c, s, t) ==
    IF ScoreRaises(c, s, 1) \/ Len(c.thresholds) < 1 THEN Raise("IndexError")
    ELSE IF QLess(CharacterScore(c, s, 1), c.thresholds[1]) THEN None
    ELSE IF ScoreRaises(c, t, 2) \/ Len(c.thresholds) < 2 THEN Raise("IndexError")
    ELSE IF QLess(CharacterScore(c, t, 2), c.thresholds[2]) THEN None
    ELSE Pair(s, t)

\* _get_en_words: the maximal runs of [a-zA-Z0-9], in order
RECURSIVE EnWordsFrom(_, _)
EnWordsFrom(s, cur) ==
    IF s = <<>> THEN (IF cur = <<>> THEN <<>> ELSE <<cur>>)
    ELSE IF IsEnWordChar(Head(s)) THEN EnWordsFrom(Tail(s), Append(cur, Head(s)))
         ELSE (IF cur = <<>> THEN <<>> ELSE <<cur>>) \o EnWordsFrom(Tail(s), <<>>)

get_en_words(s) == EnWordsFrom(s, <<>>)

\* _exist: every word occurs in s
exist(words, s) == \A i \in 1..Len(words) : Contains(s, words[i])

\* AugumentForZhFilter.filter without the check of the words of tgt
AugumentForZhFilterOneWay(c, s, t) ==
    IF ~exist(get_en_words(s), t) THEN None
    ELSE Pair(s, t)

AugumentForZhFilter(c, s, t) ==
    IF ~exist(get_en_words(s), t) THEN None
    ELSE IF ~exist(get_en_words(t), s) THEN None
    ELSE Pair(s, t)

\* the filter method of the instance configured as c
Filter(c, s, t) ==
    CASE c.class = "SameFilter"           -> SameFilter(c, s, t)
      [] c.class = "HasZhFilter"          -> HasZhFilter(c, s, t)
      [] c.class = "OverlapFilter"        -> OverlapFilter(c, s, t)
      [] c.class = "EmptyFilter"          -> EmptyFilter(c, s, t)
      [] c.class = "AllASCII"             -> AllASCII(c, s, t)
      [] c.class = "ASCIIRatioFilter"     -> ASCIIRatioFilter(c, s, t)
      [] c.class = "LangFilter"           -> LangFilter(c, s, t)
      [] c.class = "LenFilter"            -> LenFilter(c, s, t)
      [] c.class = "LenDiffFilter"        -> LenDiffFilter(c, s, t)
      [] c.class = "LengthFilter"         -> LengthFilter(c, s, t)
      [] c.class = "LongWordFilter"       -> LongWordFilter(c, s, t)
      [] c.class = "AlphabetRatioFilter"  -> AlphabetRatioFilter(c, s, t)
      [] c.class = "CharacterRatioFilter" -> CharacterRatioFilter(c, s, t)
      [] c.class = "AugumentForZhFilter"  -> AugumentForZhFilter(c, s, t)

----------------------------------------------------------------------------
(* normalizers.py *)

\* the characters of s at the positions in I, in order
KeepAt(s, I) ==
    LET idx == SelectSeq([i \in 1..Len(s) |-> i], LAMBDA i : i \in I)
    IN  [k \in 1..Len(idx) |-> s[idx[k]]]

\* str.replace(old, new) for a one-character old
ReplaceChar(s, old, new) == [i \in 1..Len(s) |-> IF s[i] = old THEN new ELSE s[i]]

\* the length of the white-space run s starts with
RECURSIVE WsRun(_)
WsRun(s) == IF Len(s) > 0 /\ IsSpace(Head(s)) THEN 1 + WsRun(Tail(s)) ELSE 0

\* s.replace("  ", " ") in place of the regular expression: one pass over pairs of
\* ASCII spaces
RECURSIVE CollapseSpacePairs(_)
CollapseSpacePairs(s) ==
    IF Len(s) < 2 THEN s
    ELSE IF s[1] = Ch.sp /\ s[2] = Ch.sp
         THEN <<Ch.sp>> \o CollapseSpacePairs(SubSeq(s, 3, Len(s)))
         ELSE <<Head(s)>> \o CollapseSpacePairs(Tail(s))

\* re.sub(r"\s{2,}", " ", s): every maximal run of two or more becomes one space
RECURSIVE CollapseSpaces(_)
CollapseSpaces(s) ==
    IF s = <<>> THEN <<>>
    ELSE IF WsRun(s) >= 2
         THEN <<Ch.sp>> \o CollapseSpaces(SubSeq(s, WsRun(s) + 1, Len(s)))
         ELSE <<Head(s)>> \o CollapseSpaces(Tail(s))

\* the loop of SpaceNormalizer.normalize: a space is dropped when a neighbour in s
\* is not ASCII
DropSpacesByNonAscii(s) ==
    KeepAt(s, {i \in 1..Len(s) :
                 ~(/\ s[i] = Ch.sp
                   /\ \/ (i > 1 /\ ~is_ascii_char(s[i - 1]))
                      \/ (i < Len(s) /\ ~is_ascii_char(s[i + 1])))})

SpaceNormalize(s) ==
    LET s1 == Strip(s)
        s2 == ReplaceChar(s1, Ch.ideosp, Ch.sp)
        s3 == ReplaceChar(s2, Ch.nbsp, Ch.sp)
        s4 == CollapseSpaces(s3)
        s5 == Strip(s4)
    IN  DropSpacesByNonAscii(s5)

\* the whole C0 range, the tab included
IsNoPrintWithTab(c) == c \in 0..31 \/ c = 127

\* the characters NoPrintNormalizer.normalize skips
IsNoPrint(c) == c \in 0..8 \/ c \in 10..31 \/ c = 127

NoPrintNormalize(s) == SelectSeq(s, LAMBDA c : ~IsNoPrint(c))

\* punct_pairs
punct_pairs == << <<8220, 8221>>, <<34, 34>>, <<8216, 8217>>,
                  <<65288, 65289>>, <<12298, 12299>>, <<40, 41>> >>

\* str.replace(old, new): the non-overlapping occurrences, left to right
RECURSIVE Replace(_, _, _)
Replace(s, old, new) ==
    IF Len(s) < Len(old) THEN s
    ELSE IF SubSeq(s, 1, Len(old)) = old
         THEN new \o Replace(SubSeq(s, Len(old) + 1, Len(s)), old, new)
         ELSE <<Head(s)>> \o Replace(Tail(s), old, new)

\* s.find(c, lo, hi) for one character, 0-based as in Python; -1 when absent
Find(s, c, lo, hi) ==
    LET at == {i \in lo..(hi - 1) : i < Len(s) /\ s[i + 1] = c}
    IN  IF at = {} THEN -1 ELSE CHOOSE i \in at : \A k \in at : i <= k

\* s[:idx] + s[idx + 1:]
DeleteAt(s, idx) == SubSeq(s, 1, idx) \o SubSeq(s, idx + 2, Len(s))

\* normalize_pair_punct deleting every unmatched bracket, as the replace calls the
\* source has commented out would
normalize_pair_punct_all(s, left_punct, right_punct) ==
    LET s1 == Replace(s, <<left_punct, left_punct>>, <<>>)
        s2 == Replace(s1, <<left_punct, left_punct, left_punct>>, <<left_punct>>)
        s3 == Replace(s2, <<right_punct, right_punct>>, <<>>)
        s4 == Replace(s3, <<right_punct, right_punct, right_punct>>, <<right_punct>>)
        li == Find(s4, left_punct, 0, Len(s4))
        s5 == IF li >= 0 /\ Find(s4, right_punct, li + 1, Len(s4)) = -1
              THEN SelectSeq(s4, LAMBDA c : c # left_punct) ELSE s4
        ri == Find(s5, right_punct, 0, Len(s5))
    IN  IF ri >= 0 /\ Find(s5, left_punct, 0, ri) = -1
        THEN SelectSeq(s5, LAMBDA c : c # right_punct) ELSE s5

normalize_pair_punct(s, left_punct, right_punct) ==
    LET s1 == Replace(s, <<left_punct, left_punct>>, <<>>)
        s2 == Replace(s1, <<left_punct, left_punct, left_punct>>, <<left_punct>>)
        s3 == Replace(s2, <<right_punct, right_punct>>, <<>>)
        s4 == Replace(s3, <<right_punct, right_punct, right_punct>>, <<right_punct>>)
        li == Find(s4, left_punct, 0, Len(s4))
        s5 == IF li >= 0 /\ Find(s4, right_punct, li + 1, Len(s4)) = -1
              THEN DeleteAt(s4, li) ELSE s4
        ri == Find(s5, right_punct, 0, Len(s5))
    IN  IF ri >= 0 /\ Find(s5, left_punct, 0, ri) = -1
        THEN DeleteAt(s5, ri) ELSE s5

\* PairPunctNormalizer.normalize_pair on one side: every pair of punct_pairs in turn
\* (t is the side after pair k, computed before pair k + 1 is looked at)
RECURSIVE NormalizeSide(_, _)
NormalizeSide(s, k) ==
    IF k > Len(punct_pairs) THEN s
    ELSE CHOOSE r \in {NormalizeSide(t, k + 1) :
                          t \in {normalize_pair_punct(s, punct_pairs[k][1],
                                                      punct_pairs[k][2])}} : TRUE

\* PairPunctNormalizer.normalize matching the brackets over the whole line, not
\* side by side
PairPunctNormalizeWholeLine(s) ==
    LET pair == SplitOn(s, Ch.tab)
    IN  IF Len(pair) < 2 THEN Raise("IndexError")
        ELSE Text(SplitOn(NormalizeSide(pair[1] \o <<Ch.tab>> \o pair[2], 1), Ch.tab)[1]
                  \o <<Ch.tab>>
                  \o SplitOn(NormalizeSide(pair[1] \o <<Ch.tab>> \o pair[2], 1), Ch.tab)[2])

\* PairPunctNormalizer.normalize: pair[1] of a string without a tab raises IndexError
PairPunctNormalize(s) ==
    LET pair == SplitOn(s, Ch.tab)
    IN  IF Len(pair) < 2 THEN Raise("IndexError")
        ELSE Text(NormalizeSide(pair[1], 1) \o <<Ch.tab>> \o NormalizeSide(pair[2], 1))

\* Hant2Hans.normalize converting both sides whatever the flags say
Hant2HansBothSides(c, s) ==
    LET pair == SplitOn(s, Ch.tab)
    IN  IF ~c.norm_src /\ ~c.norm_tgt THEN Text(s)
        ELSE IF Len(pair) # 2 THEN Text(s)
        ELSE Text(hant_2_hans(pair[1]) \o <<Ch.tab>> \o hant_2_hans(pair[2]))

Hant2HansNormalize(c, s) ==
    LET pair == SplitOn(s, Ch.tab)
    IN  IF ~c.norm_src /\ ~c.norm_tgt THEN Text(s)
        ELSE IF Len(pair) # 2 THEN Text(s)
        ELSE Text((IF c.norm_src THEN hant_2_hans(pair[1]) ELSE pair[1])
                  \o <<Ch.tab>>
                  \o (IF c.norm_tgt THEN hant_2_hans(pair[2]) ELSE pair[2]))

\* the normalize method of the instance configured as c
Normalize(c, s) ==
    CASE c.class = "SpaceNormalizer"     -> Text(SpaceNormalize(s))
      [] c.class = "NoPrintNormalizer"   -> Text(NoPrintNormalize(s))
      [] c.class = "PairPunctNormalizer" -> PairPunctNormalize(s)
      [] c.class = "Hant2Hans"           -> Hant2HansNormalize(c, s)

----------------------------------------------------------------------------
(* Construction: the configurations the instances are built with *)

NewSameFilter(lower) == [class |-> "SameFilter", lower |-> lower]

NewHasZhFilter(filter_src) == [class |-> "HasZhFilter", filter_src |-> filter_src]

NewOverlapFilter(ratio) == [class |-> "OverlapFilter", ratio |-> ratio]

NewEmptyFilter == [class |-> "EmptyFilter"]

NewAllASCII == [class |-> "AllASCII"]

NewASCIIRatioFilter(threshold, filter_src, filter_tgt) ==
    [class |-> "ASCIIRatioFilter", threshold |-> threshold,
     filter_src |-> filter_src, filter_tgt |-> filter_tgt]

NewLangFilter(src_lang, tgt_lang) ==
    [class |-> "LangFilter", src_lang |-> src_lang, tgt_lang |-> tgt_lang]

NewLenFilter(src_lens, tgt_lens, src_len_fn, tgt_len_fn) ==
    [class |-> "LenFilter",
     src_min_len |-> src_lens[1], src_max_len |-> src_lens[2],
     tgt_min_len |-> tgt_lens[1], tgt_max_len |-> tgt_lens[2],
     src_len_fn |-> src_len_fn, tgt_len_fn |-> tgt_len_fn]

NewLenDiffFilter(ratio, src_len_fn, tgt_len_fn) ==
    [class |-> "LenDiffFilter", ratio |-> ratio,
     src_len_fn |-> src_len_fn, tgt_len_fn |-> tgt_len_fn]

NewLengthFilter(src_len_fn, tgt_len_fn, src_lens, tgt_lens, ratio) ==
    [class |-> "LengthFilter",
     src_min_len |-> src_lens[1], src_max_len |-> src_lens[2],
     tgt_min_len |-> tgt_lens[1], tgt_max_len |-> tgt_lens[2],
     src_len_fn |-> src_len_fn, tgt_len_fn |-> tgt_len_fn, ratio |-> ratio]

NewLongWordFilter(max_long) ==
    [class |-> "LongWordFilter", src_max_len |-> max_long[1], tgt_max_len |-> max_long[2]]

NewAlphabetRatioFilter(threshold, exclude_whitespace) ==
    [class |-> "AlphabetRatioFilter", threshold |-> threshold,
     exclude_whitespace |-> exclude_whitespace]

\* thresholds=None stands for [1] * len(scripts); lang2script is not consulted
NewCharacterRatioFilter(scripts, thresholds) ==
    [class |-> "CharacterRatioFilter", scripts |-> scripts, thresholds |-> thresholds]

\* regex.compile(fr'\p{{^Script={script}}}') accepts every script of the list
ScriptsCompile(scripts) == \A i \in 1..Len(scripts) : scripts[i] \in ScriptNames

NewAugumentForZhFilter == [class |-> "AugumentForZhFilter"]

NewSpaceNormalizer == [class |-> "SpaceNormalizer"]

NewNoPrintNormalizer == [class |-> "NoPrintNormalizer"]

NewPairPunctNormalizer == [class |-> "PairPunctNormalizer"]

NewHant2Hans(norm_src, norm_tgt) ==
    [class |-> "Hant2Hans", norm_src |-> norm_src, norm_tgt |-> norm_tgt]

----------------------------------------------------------------------------
(* The inputs the calls are made on *)

\* the strings over alphabet of length at most n
Strings(alphabet, n) == UNION {[1..k -> alphabet] : k \in 0..n}

\* a space, an ASCII letter, an ASCII digit, a CJK ideograph
FilterChars == {Ch.sp, Ch.a, Ch.one, Ch.ni}

\* cased letters: a, sharp s (upper "SS"), dotless i (upper "I"), and a space
CasedChars == {Ch.sp, Ch.a, Ch.eszett, Ch.y_diaeresis, Ch.dotless_i}

str_ab          == <<97, 98>>
str_abcdefgh    == <<97, 98, 99, 100, 101, 102, 103, 104>>
str_a           == <<97>>
str_x           == <<120>>
str_hello       == <<104, 101, 108, 108, 111>>
str_world       == <<119, 111, 114, 108, 100>>
str_hello_world == <<104, 101, 108, 108, 111, 32, 119, 111, 114, 108, 100>>
str_nihaoshijie == <<20320, 22909, 19990, 30028>>
str_nihao_world == <<20320, 22909, 119, 111, 114, 108, 100>>

\* the pairs the specification's examples name
SamplePairs == { <<str_ab, str_abcdefgh>>, <<str_a, str_a>>, <<str_hello, str_world>>,
                 <<<<>>, str_x>>, <<str_nihaoshijie, str_hello_world>>,
                 <<str_nihao_world, str_hello>> }

\* lengths 29 and 25: the product of the doubles 1.16 and 25 is rounded to
\* 28.999999999999996
RoundingPairs == { <<[n \in 1..29 |-> Ch.a], [n \in 1..25 |-> Ch.b]>> }

FilterPairs == (Strings(FilterChars, MaxLen) \X Strings(FilterChars, MaxLen))
               \cup {<<s, Upper(s)>> : s \in Strings(CasedChars, MaxLen)}
               \cup SamplePairs
               \cup RoundingPairs

NoBounds == <<{}, {}>>

SameFilterConfs == {NewSameFilter(lower) : lower \in BOOLEAN}

HasZhFilterConfs == {NewHasZhFilter(filter_src) : filter_src \in BOOLEAN}

OverlapFilterConfs == {NewOverlapFilter(r) : r \in {Q(4, 5), Q(1, 2)}}

ASCIIRatioFilterConfs ==
    {NewASCIIRatioFilter(Q(1, 2), fs, ft) : fs \in BOOLEAN, ft \in BOOLEAN}
    \cup {NewASCIIRatioFilter(Q(67, 100), FALSE, TRUE)}
    \cup {NewASCIIRatioFilter(Q(3, 2), FALSE, TRUE)}

LangFilterConfs == {NewLangFilter("zh", "en"), NewLangFilter("en", "zh")}

LenFns == {"len", "space_sep_len_f"}

LenFilterConfs ==
    {NewLenFilter(sl, tl, "len", "len") :
        sl \in {NoBounds, <<{1}, {10}>>, <<{2}, {2}>>},
        tl \in {NoBounds, <<{1}, {1}>>}}
    \cup {NewLenFilter(sl, NoBounds, "space_sep_len_f", "space_sep_len_f") :
             sl \in {NoBounds, <<{1}, {10}>>}}

LenDiffFilterConfs ==
    {NewLenDiffFilter(r, f, f) :
        r \in {Q(1, 2), Q(1, 1), Q(3, 2), Q(3, 1)}, f \in LenFns}
    \cup {NewLenDiffFilter(r, "len", "len") : r \in {Q(7, 10), Q(29, 25)}}

LengthFilterConfs ==
    {NewLengthFilter(f, f, sl, NoBounds, r) :
        f \in LenFns, sl \in {NoBounds, <<{1}, {10}>>},
        r \in {Q(1, 2), Q(1, 1), Q(3, 1)}}
    \cup {NewLengthFilter("len", "len", NoBounds, <<{1}, {2}>>, Q(3, 1)),
          NewLengthFilter("len", "space_sep_len_f", <<{2}, {}>>, NoBounds, Q(3, 2))}

LongWordFilterConfs ==
    {NewLongWordFilter(m) :
        m \in {<<{40}, {40}>>, <<{1}, {1}>>, <<{1}, {}>>, <<{}, {1}>>, NoBounds}}

AlphabetRatioFilterConfs ==
    {NewAlphabetRatioFilter(th, ew) : th \in {Q(3, 4), Q(1, 2)}, ew \in BOOLEAN}
    \cup {NewAlphabetRatioFilter(Q(-1, 2), FALSE)}

\* the arguments CharacterRatioFilter is constructed with: Unicode scripts with
\* two thresholds or one, and the language codes of the specification's example
CharacterRatioFilterArgs ==
    {<<<<"Han", "Latin">>, th>> :
        th \in {<<Q(1, 1), Q(1, 1)>>, <<Q(1, 2), Q(1, 2)>>, <<Q(0, 1), Q(0, 1)>>,
                <<Q(1, 1)>>}}
    \cup {<<<<"zh", "en">>, <<Q(1, 1), Q(1, 1)>>>>}

CharacterRatioFilterConfs ==
    {NewCharacterRatioFilter(a[1], a[2]) :
        a \in {b \in CharacterRatioFilterArgs : ScriptsCompile(b[1])}}

Hant2HansConfs == {NewHant2Hans(ns, nt) : ns \in BOOLEAN, nt \in BOOLEAN}

----------------------------------------------------------------------------
(* Calls of filter on one pair *)

PipeIdle == /\ stream = <<>>
            /\ chain = <<>>
            /\ pos = 0
            /\ step = 0
            /\ output = <<>>
            /\ calls = <<>>

\* no thread is calling a shared instance
ThreadsIdle == /\ inst = NoConf
               /\ threads = <<>>

InitFilter == /\ \E p \in FilterPairs : src = p[1] /\ tgt = p[2]
              /\ text = <<>>
              /\ op = "none"
              /\ conf = NoConf
              /\ result = NoResult
              /\ passes = 0
              /\ PipeIdle
              /\ ThreadsIdle
              /\ train = NoTraining

\* the call on instance c has returned (or raised) r; the pair is left as it was
Returned(c, r) == /\ op' = c.class
                  /\ conf' = c
                  /\ result' = r
                  /\ passes' = 1
                  /\ UNCHANGED <<src, tgt, text>>
                  /\ UNCHANGED pipeVars
                  /\ UNCHANGED threadVars
                  /\ UNCHANGED train

CallSameFilter ==
    \E c \in SameFilterConfs :
        /\ op = "none"
        /\ Returned(c, SameFilter(c, src, tgt))

CallHasZhFilter ==
    \E c \in HasZhFilterConfs :
        /\ op = "none"
        /\ Returned(c, HasZhFilter(c, src, tgt))

CallOverlapFilter ==
    \E c \in OverlapFilterConfs :
        /\ op = "none"
        /\ Returned(c, OverlapFilter(c, src, tgt))

CallEmptyFilter ==
    LET c == NewEmptyFilter IN
        /\ op = "none"
        /\ Returned(c, EmptyFilter(c, src, tgt))

CallAllASCII ==
    LET c == NewAllASCII IN
        /\ op = "none"
        /\ Returned(c, AllASCII(c, src, tgt))

CallASCIIRatioFilter ==
    \E c \in ASCIIRatioFilterConfs :
        /\ op = "none"
        /\ Returned(c, ASCIIRatioFilter(c, src, tgt))

CallLangFilter ==
    \E c \in LangFilterConfs :
        /\ op = "none"
        /\ Returned(c, LangFilter(c, src, tgt))

CallLenFilter ==
    \E c \in LenFilterConfs :
        /\ op = "none"
        /\ Returned(c, LenFilter(c, src, tgt))

CallLenDiffFilter ==
    \E c \in LenDiffFilterConfs :
        /\ op = "none"
        /\ Returned(c, LenDiffFilter(c, src, tgt))

CallLengthFilter ==
    \E c \in LengthFilterConfs :
        /\ op = "none"
        /\ Returned(c, LengthFilter(c, src, tgt))

CallLongWordFilter ==
    \E c \in LongWordFilterConfs :
        /\ op = "none"
        /\ Returned(c, LongWordFilter(c, src, tgt))

CallAlphabetRatioFilter ==
    \E c \in AlphabetRatioFilterConfs :
        /\ op = "none"
        /\ Returned(c, AlphabetRatioFilter(c, src, tgt))

CallCharacterRatioFilter ==
    \E c \in CharacterRatioFilterConfs :
        /\ op = "none"
        /\ Returned(c, CharacterRatioFilter(c, src, tgt))

\* CharacterRatioFilter(scripts, thresholds) raises in __init__: there is no
\* instance and filter is never called; conf keeps the arguments of the constructor
RaiseCharacterRatioFilter ==
    \E a \in CharacterRatioFilterArgs :
        /\ op = "none"
        /\ ~ScriptsCompile(a[1])
        /\ op' = "CharacterRatioFilter.__init__"
        /\ conf' = NewCharacterRatioFilter(a[1], a[2])
        /\ result' = Raise("regex.error")
        /\ passes' = 0
        /\ UNCHANGED <<src, tgt, text>>
        /\ UNCHANGED pipeVars
        /\ UNCHANGED threadVars
        /\ UNCHANGED train

CallAugumentForZhFilter ==
    LET c == NewAugumentForZhFilter IN
        /\ op = "none"
        /\ Returned(c, AugumentForZhFilter(c, src, tgt))

NextFilter == \/ CallSameFilter
              \/ CallHasZhFilter
              \/ CallOverlapFilter
              \/ CallEmptyFilter
              \/ CallAllASCII
              \/ CallASCIIRatioFilter
              \/ CallLangFilter
              \/ CallLenFilter
              \/ CallLenDiffFilter
              \/ CallLengthFilter
              \/ CallLongWordFilter
              \/ CallAlphabetRatioFilter
              \/ CallCharacterRatioFilter
              \/ RaiseCharacterRatioFilter
              \/ CallAugumentForZhFilter

SpecFilter == InitFilter /\ [][NextFilter]_vars

----------------------------------------------------------------------------
(* Calls of normalize on one string, and on its own output *)

\* white space (ASCII and not), an ASCII letter, a CJK ideograph
SpaceChars == {Ch.tab, Ch.sp, Ch.nbsp, Ch.ideosp, Ch.a, Ch.ni}

\* control characters, the tab, DEL, an ASCII letter, a CJK ideograph
ControlChars == {Ch.nul, Ch.tab, Ch.us, Ch.del, Ch.a, Ch.ni}

\* the field separator, brackets, an ASCII letter, a Traditional ideograph
PairChars == {Ch.tab, Ch.dquote, Ch.lparen, Ch.rparen, Ch.a, Ch.guo_hant}

str_hello3world == <<104, 101, 108, 108, 111, 32, 32, 32, 119, 111, 114, 108, 100>>
str_nihao_shijie == <<20320, 22909, 32, 19990, 30028>>
str_a0b1fc == <<97, 0, 98, 31, 99>>
str_abc == <<97, 98, 99>>

\* sides that mix the curly double quotes (8220, 8221), the first pair of
\* punct_pairs, with the ASCII parentheses, the last pair
PairSamples == { <<8220, 40, 8220, 9>>, <<40, 8220, 40, 9>>, <<40, 8221, 97, 40, 9>>,
                 <<8220, 97, 8220, 41, 9>> }

\* the strings the specification's examples name
SampleTexts == {str_hello3world, str_nihao_shijie, str_a0b1fc, str_hello}

Texts == Strings(SpaceChars, MaxTextLen) \cup Strings(ControlChars, MaxTextLen)
         \cup Strings(PairChars, MaxTextLen) \cup PairSamples \cup SampleTexts

InitNorm == /\ text \in Texts
            /\ src = <<>>
            /\ tgt = <<>>
            /\ op = "none"
            /\ conf = NoConf
            /\ result = NoResult
            /\ passes = 0
            /\ PipeIdle
            /\ ThreadsIdle
            /\ train = NoTraining

\* the call of normalize on instance c has returned (or raised) r
Normalized(c, r) == /\ op' = c.class
                    /\ conf' = c
                    /\ result' = r
                    /\ passes' = 1
                    /\ UNCHANGED <<src, tgt, text>>
                    /\ UNCHANGED pipeVars
                    /\ UNCHANGED threadVars
                    /\ UNCHANGED train

CallSpaceNormalizer ==
    LET c == NewSpaceNormalizer IN
        /\ op = "none"
        /\ Normalized(c, Text(SpaceNormalize(text)))

CallNoPrintNormalizer ==
    LET c == NewNoPrintNormalizer IN
        /\ op = "none"
        /\ Normalized(c, Text(NoPrintNormalize(text)))

CallPairPunctNormalizer ==
    LET c == NewPairPunctNormalizer IN
        /\ op = "none"
        /\ Normalized(c, PairPunctNormalize(text))

CallHant2Hans ==
    \E c \in Hant2HansConfs :
        /\ op = "none"
        /\ Normalized(c, Hant2HansNormalize(c, text))

\* the same instance is handed the string it returned
Renormalize == /\ passes = 1
               /\ result.kind = "text"
               /\ text' = result.val[1]
               /\ result' = Normalize(conf, result.val[1])
               /\ passes' = 2
               /\ UNCHANGED <<src, tgt, op, conf>>
               /\ UNCHANGED pipeVars
               /\ UNCHANGED threadVars
               /\ UNCHANGED train

NextNorm == \/ CallSpaceNormalizer
            \/ CallNoPrintNormalizer
            \/ CallPairPunctNormalizer
            \/ CallHant2Hans
            \/ Renormalize

SpecNorm == InitNorm /\ [][NextNorm]_vars

----------------------------------------------------------------------------
(* The pipeline driver: every pair of the stream goes through the chain, in   *)
(* order, until a filter returns None; a pair every filter kept is written.   *)

ExampleChain == <<NewEmptyFilter,
                  NewLenFilter(<<{1}, {10}>>, NoBounds, "len", "len"),
                  NewSameFilter(TRUE)>>

ExampleStream == << <<str_a, str_a>>, <<str_hello, str_world>>, <<<<>>, str_x>> >>

PipeFilters == {ExampleChain[k] : k \in 1..3}

\* the filters that divide by, or take the maximum over, what a side holds
MeasuringFilters == {NewASCIIRatioFilter(Q(1, 2), TRUE, TRUE),
                     NewAlphabetRatioFilter(Q(1, 2), FALSE),
                     NewAlphabetRatioFilter(Q(1, 2), TRUE),
                     NewLongWordFilter(<<{40}, {40}>>)}

\* a measuring filter behind EmptyFilter, and in front of it
GuardedChains == {<<NewEmptyFilter, f>> : f \in MeasuringFilters}
                 \cup {<<f, NewEmptyFilter>> : f \in MeasuringFilters}
                 \cup {<<f>> : f \in MeasuringFilters}

PipePairs == {ExampleStream[k] : k \in 1..3}
             \cup {<<str_nihaoshijie, str_a>>, <<<<Ch.sp>>, <<Ch.ni>>>>}

Chains == Strings(PipeFilters, MaxChain) \cup {ExampleChain} \cup GuardedChains

Streams == Strings(PipePairs, MaxStream) \cup {ExampleStream}

\* the pair at index k of the stream, the empty pair past its end
PairAt(k) == IF k <= Len(stream) THEN stream[k] ELSE <<<<>>, <<>>>>

InitPipe == /\ chain \in Chains
            /\ stream \in Streams
            /\ pos = 1
            /\ step = 1
            /\ output = <<>>
            /\ calls = <<>>
            /\ src = PairAt(1)[1]
            /\ tgt = PairAt(1)[2]
            /\ text = <<>>
            /\ op = "none"
            /\ conf = NoConf
            /\ result = NoResult
            /\ passes = 0
            /\ ThreadsIdle
            /\ train = NoTraining

PipeDone == pos > Len(stream)

\* the next filter of the chain is applied to the pair in hand: a kept pair goes
\* on to the following filter, a rejected one is dropped and the next pair read,
\* an exception ends the run
ApplyFilter ==
    /\ ~PipeDone
    /\ result.kind # "raise"
    /\ step <= Len(chain)
    /\ LET r == Filter(chain[step], src, tgt) IN
        /\ op' = chain[step].class
        /\ conf' = chain[step]
        /\ result' = r
        /\ calls' = Append(calls, <<pos, step>>)
        /\ CASE r.kind = "pair"  -> /\ src' = r.val[1]
                                    /\ tgt' = r.val[2]
                                    /\ step' = step + 1
                                    /\ pos' = pos
                 [] r.kind = "None"  -> /\ src' = PairAt(pos + 1)[1]
                                        /\ tgt' = PairAt(pos + 1)[2]
                                        /\ step' = 1
                                        /\ pos' = pos + 1
                 [] r.kind = "raise" -> UNCHANGED <<src, tgt, step, pos>>
    /\ UNCHANGED <<stream, chain, output, text, passes>>
    /\ UNCHANGED threadVars
    /\ UNCHANGED train

\* every filter kept the pair in hand: it is written and the next pair read
Emit ==
    /\ ~PipeDone
    /\ result.kind # "raise"
    /\ step > Len(chain)
    /\ output' = Append(output, <<src, tgt>>)
    /\ pos' = pos + 1
    /\ step' = 1
    /\ src' = PairAt(pos + 1)[1]
    /\ tgt' = PairAt(pos + 1)[2]
    /\ UNCHANGED <<stream, chain, calls, text, op, conf, result, passes>>
    /\ UNCHANGED threadVars
    /\ UNCHANGED train

NextPipe == ApplyFilter \/ Emit

SpecPipe == InitPipe /\ [][NextPipe]_vars

\* the driver is a loop over the stream: it goes on until the stream is read or a
\* filter raises
SpecPipeLive == SpecPipe /\ WF_vars(NextPipe)

----------------------------------------------------------------------------
(* One instance shared by several threads.  A call is two steps of its thread: *)
(* it enters filter or normalize with its own argument, and it returns; the    *)
(* method runs on the attributes the instance has when it returns, and other   *)
(* threads may enter and return in between.                                    *)

NormalizerClasses == {"SpaceNormalizer", "NoPrintNormalizer", "PairPunctNormalizer",
                      "Hant2Hans"}

\* c.filter(src, tgt) or c.normalize(s), on the argument tuple a
Call(c, a) == IF c.class \in NormalizerClasses THEN Normalize(c, a[1])
              ELSE Filter(c, a[1], a[2])

\* a call that leaves its argument behind in the instance (a hidden last-seen
\* attribute): the threshold drifts with the length of what was seen
WrittenLastSeen(c, a) ==
    IF "threshold" \in DOMAIN c THEN [c EXCEPT !.threshold = Q(Len(a[1]) + 1, 1)]
    ELSE c

\* the attributes of the instance after the call: no filter or normalize method
\* assigns to self or to a module-level name
Written(c, a) == c

Threads == 1..MaxThreads

SharedConfs == {NewAlphabetRatioFilter(Q(3, 4), FALSE), NewAlphabetRatioFilter(Q(1, 2), TRUE),
                NewASCIIRatioFilter(Q(1, 2), TRUE, TRUE),
                NewPairPunctNormalizer, NewSpaceNormalizer}

\* the arguments the threads call the instance with
SharedArgs(c) ==
    IF c.class \in NormalizerClasses
    THEN {<<str_hello3world>>, <<<<Ch.lparen, Ch.a, Ch.tab, Ch.a>>>>, <<<<Ch.a, Ch.tab, Ch.a>>>>}
    ELSE {<<str_hello, str_world>>, <<str_a, <<Ch.a, Ch.one, Ch.one>>>>, <<str_nihaoshijie, str_x>>}

NotCalling == [pc |-> "idle", arg |-> <<>>, res |-> NoResult, done |-> 0,
               overlapped |-> FALSE]

InitShared == /\ inst \in SharedConfs
              /\ conf = inst
              /\ threads = [t \in Threads |-> NotCalling]
              /\ src = <<>>
              /\ tgt = <<>>
              /\ text = <<>>
              /\ op = "none"
              /\ result = NoResult
              /\ passes = 0
              /\ PipeIdle
              /\ train = NoTraining

\* thread t calls the shared instance with argument a
ThreadEnter(t) ==
    /\ threads[t].pc # "running"
    /\ threads[t].done < MaxCalls
    /\ \E a \in SharedArgs(conf) :
          LET others == \E u \in Threads \ {t} : threads[u].pc = "running" IN
          threads' = [u \in Threads |->
                        IF u = t
                        THEN [threads[t] EXCEPT !.pc = "running", !.arg = a,
                                                !.res = NoResult, !.overlapped = others]
                        ELSE IF threads[u].pc = "running"
                             THEN [threads[u] EXCEPT !.overlapped = TRUE]
                             ELSE threads[u]]
    /\ UNCHANGED <<inst, callVars, pipeVars, train>>

\* the call of thread t returns
ThreadReturn(t) ==
    /\ threads[t].pc = "running"
    /\ threads' = [threads EXCEPT ![t].pc = "returned",
                                   ![t].res = Call(inst, threads[t].arg),
                                   ![t].done = @ + 1]
    /\ inst' = Written(inst, threads[t].arg)
    /\ UNCHANGED <<callVars, pipeVars, train>>

Enter == \E t \in Threads : ThreadEnter(t)

Return == \E t \in Threads : ThreadReturn(t)

NextShared == Enter \/ Return

SpecShared == InitShared /\ [][NextShared]_vars

-----------------------------------------------------------------------------
(* inputter.py: the training dataset of an ExampleInputter.  A file is the     *)
(* sequence of the lengths of its lines (the number of tokens the inputter     *)
(* makes of each line); an optional value is a set, {} for None.               *)

\* Inputter.keep_for_training on the length get_length returned
keep_for_training_AllowEmpty(length, maximum_length) ==
    \/ length = {}
    \/ \A n \in length : \A m \in maximum_length : n <= m
keep_for_training(length, maximum_length) ==
    \/ length = {}
    \/ \A n \in length : n > 0 /\ \A m \in maximum_length : n <= m

\* maximum_length += [None] * (len(self.inputters) - len(maximum_length))
PadMaximumLength(maximum_length, n) ==
    [i \in 1..n |-> IF i <= Len(maximum_length) THEN maximum_length[i] ELSE {}]

\* ParallelInputter.keep_for_training: every inputter keeps its own features
ParallelInputter_keep_for_training(features, maximum_length) ==
    LET padded == PadMaximumLength(maximum_length, Len(features))
    IN  \A i \in 1..Len(features) : keep_for_training(features[i], padded[i])

Size(v) == [kind |-> "size", val |-> <<v>>, exc |-> ""]

\* the sizes the loop of ParallelInputter.get_dataset_size has seen up to inputter k
CommonSize(sizes, k) ==
    LET known == {i \in 1..k : sizes[i] # {}}
    IN  IF known = {} THEN {}
        ELSE sizes[CHOOSE i \in known : \A j \in known : i <= j]

\* ParallelInputter.get_dataset_size on the sizes its inputters return
ParallelInputter_get_dataset_size(sizes) ==
    IF \E i \in 1..Len(sizes) : sizes[i] # {} /\ sizes[i] # CommonSize(sizes, i)
    THEN Raise("RuntimeError: Parallel datasets do not have the same size")
    ELSE Size(CommonSize(sizes, Len(sizes)))

\* the message of the RuntimeError of ExampleInputter.get_dataset_size
AnnotationSizeError(annotation) ==
    "RuntimeError: Annotation dataset '" \o annotation
        \o "' does not have the same size as the examples dataset"

\* ExampleInputter.get_dataset_size; annotation_files is the dictionary of the
\* configured annotations as the sequence of its items, in their order, each the
\* name of the annotation and the line count of its file; the loop raises at the
\* first annotation whose line count is not the size
ExampleInputter_get_dataset_size_NoAnnotations(sizes, annotation_files) ==
    ParallelInputter_get_dataset_size(sizes)
ExampleInputter_get_dataset_size(sizes, annotation_files) ==
    LET size      == ParallelInputter_get_dataset_size(sizes)
        differing == {k \in 1..Len(annotation_files) :
                         {annotation_files[k].lines} # size.val[1]}
    IN  IF size.kind = "raise" THEN size
        ELSE IF size.val[1] # {} /\ differing # {}
        THEN Raise(AnnotationSizeError(
                 annotation_files[CHOOSE k \in differing :
                                      \A j \in differing : k <= j].name))
        ELSE size

\* the line counts of the annotation files
AnnotationLines(annotation_files) ==
    {annotation_files[k].lines : k \in 1..Len(annotation_files)}

Min2(a, b) == IF a <= b THEN a ELSE b

\* ExampleInputter.make_dataset: features and labels zipped line by line, and
\* zipped with the lines of each annotation file; zip stops at the shortest
NumExamples(features_file, labels_file, annotation_files) ==
    LET n == Min2(Len(features_file), Len(labels_file))
        lines == AnnotationLines(annotation_files)
    IN  IF lines = {} THEN n
        ELSE Min2(n, CHOOSE a \in lines : \A b \in lines : a <= b)

\* make_features on example i: the length of each side, None for an inputter
\* whose features have no "length"
ExampleAt(t, i) ==
    <<IF t.has_length[1] THEN {t.features_file[i]} ELSE {},
      IF t.has_length[2] THEN {t.labels_file[i]} ELSE {}>>

\* the value get_dataset_size of each inputter returns for its file: the line
\* count, or None for an inputter that does not override the method
InputterSizes(t) ==
    <<IF t.counts[1] THEN {Len(t.features_file)} ELSE {},
      IF t.counts[2] THEN {Len(t.labels_file)} ELSE {}>>

\* the lengths of the lines: empty, within the maximum 1, above it
FeaturesFiles == UNION {[1..n -> {0, 1, 2}] : n \in 0..MaxExamples}
LabelsFiles == UNION {[1..n -> {0, 1}] : n \in 0..MaxExamples}
\* the files of testExampleInputterFiltering
TestFeaturesFile == <<4, 3, 3, 1>>
TestLabelsFile == <<4, 1, 5, 0>>
Modes == {"single_pass", "repeat", "batch_autotune"}

\* ExampleInputter.__init__: accepted_annotations is the caller's dictionary,
\* here none or one that accepts "train_alignments", with "example_weights" set
\* after it; annotation_files holds, in that order, those the configuration names
Annotation(name, lines) == [name |-> name, lines |-> lines]
AnnotationFiles ==
    {<<>>}
    \cup {<<Annotation("example_weights", n)>> : n \in {0, 1, MaxExamples}}
    \cup {<<Annotation("train_alignments", n), Annotation("example_weights", 1)>> :
              n \in {1, MaxExamples}}

\* the arguments make_training_dataset hands on to training_pipeline as they
\* are: batch_size, shuffle_buffer_size, length_bucket_width, num_shards,
\* shard_index, cardinality_multiple and weights (None is the empty set)
PipelineArgs(b, sbs, lbw, ns, si, cm, w) ==
    [batch_size |-> b, shuffle_buffer_size |-> sbs, length_bucket_width |-> lbw,
     num_shards |-> ns, shard_index |-> si, cardinality_multiple |-> cm,
     weights |-> w]

\* the defaults of the signature, with batches of one example as in
\* testExampleInputterFiltering
DefaultArgs == PipelineArgs(1, {}, {}, 1, 0, 1, {})

\* calls that shard, shuffle, bucket by length, pad the cardinality or sample
\* by weights
OtherArgs ==
    {PipelineArgs(1, {}, {}, 2, si, 1, {}) : si \in {0, 1}}
    \cup {PipelineArgs(1, {2}, {}, 1, 0, 1, {}),
          PipelineArgs(1, {2}, {}, 2, 1, 1, {}),
          PipelineArgs(2, {}, {1}, 1, 0, 1, {}),
          PipelineArgs(1, {}, {1}, 1, 0, 1, {}),
          PipelineArgs(1, {}, {}, 1, 0, 2, {}),
          PipelineArgs(2, {}, {}, 1, 0, 2, {}),
          PipelineArgs(1, {}, {}, 1, 0, 1, {<<1, 1>>})}

\* the calls: every file, annotation and size configuration with the default
\* arguments; the other arguments on files with lengths on both sides; the
\* files and maxima of testExampleInputterFiltering with all of them
CallArgs ==
    [features_file : FeaturesFiles, labels_file : LabelsFiles,
     annotation_files : AnnotationFiles,
     has_length : {<<TRUE, TRUE>>, <<TRUE, FALSE>>},
     counts : {<<TRUE, TRUE>>, <<TRUE, FALSE>>, <<FALSE, FALSE>>},
     maximum_length : {<<{}, {}>>, <<{1}, {1}>>, <<{1}, {}>>},
     mode : Modes, args : {DefaultArgs}]
    \cup
    [features_file : FeaturesFiles, labels_file : LabelsFiles,
     annotation_files : {<<>>},
     has_length : {<<TRUE, TRUE>>},
     counts : {<<TRUE, TRUE>>},
     maximum_length : {<<{}, {}>>, <<{1}, {}>>},
     mode : Modes, args : OtherArgs]
    \cup
    [features_file : {TestFeaturesFile}, labels_file : {TestLabelsFile},
     annotation_files : {<<>>},
     has_length : {<<TRUE, TRUE>>},
     counts : {<<TRUE, TRUE>>},
     maximum_length : {<<{3}, {4}>>},
     mode : Modes, args : {DefaultArgs} \cup OtherArgs]

TrainingCalls ==
    {[phase |-> "called", features_file |-> c.features_file,
      labels_file |-> c.labels_file, annotation_files |-> c.annotation_files,
      has_length |-> c.has_length, counts |-> c.counts,
      maximum_length |-> c.maximum_length, mode |-> c.mode, args |-> c.args,
      cursor |-> 0, read |-> {}, round |-> 0, dataset |-> <<>>, error |-> ""] :
        c \in CallArgs}

InitTrain == /\ train \in TrainingCalls
             /\ src = <<>> /\ tgt = <<>> /\ text = <<>>
             /\ op = "none" /\ conf = NoConf /\ result = NoResult
             /\ passes = 0
             /\ PipeIdle
             /\ ThreadsIdle

\* make_training_dataset up to its return: outside batch_autotune_mode it
\* evaluates get_dataset_size(data_files), which may raise; the dataset it
\* returns is read afterwards
MakeTrainingDataset ==
    /\ train.phase = "called"
    /\ LET size == ExampleInputter_get_dataset_size(InputterSizes(train),
                                                     train.annotation_files)
       IN  IF train.mode # "batch_autotune" /\ size.kind = "raise"
           THEN train' = [train EXCEPT !.phase = "raised", !.error = size.exc]
           ELSE train' = [train EXCEPT !.phase = "reading", !.cursor = 1, !.round = 1]
    /\ UNCHANGED <<inst, threads, callVars, pipeVars>>

\* training_pipeline is not part of the sources; what it does with the
\* arguments is taken from the docstring of make_training_dataset and from the
\* tf.data transformations they name.

\* num_shards, shard_index ("the shard index this data pipeline should read
\* from"): of the zipped examples, those whose position counted from 0 is
\* shard_index modulo num_shards; batch_autotune_mode does not shard
Shard(t) ==
    {i \in 1..NumExamples(t.features_file, t.labels_file, t.annotation_files) :
        \/ t.mode = "batch_autotune"
        \/ (i - 1) % t.args.num_shards = t.args.shard_index}

\* the n smallest elements of a set of positions
FirstN(S, n) == {i \in S : Cardinality({j \in S : j < i}) < n}

\* the length bucket of an example: its longest side over the bucket width
BucketOf(e, width) ==
    LET lengths == e[1] \cup e[2]
    IN  IF lengths = {} THEN 0
        ELSE (CHOOSE n \in lengths : \A k \in lengths : k <= n) \div width

\* the examples that may leave the pipeline next, of those of the shard not
\* yet read in this pass.  With the default arguments it is the first one.
\* shuffle_buffer_size ("the number of elements from which to sample"): any of
\* the first shuffle_buffer_size of them.  length_bucket_width with batches of
\* several examples ("the length buckets to select batch candidates from"):
\* the first one of any length bucket, as the batches of the buckets fill
\* independently.  weights ("a weighted dataset"), and shuffling together with
\* bucketing: any of them.  batch_autotune_mode applies none of this.
NextExamples(t) ==
    LET unread == Shard(t) \ t.read
        bucketed == t.args.length_bucket_width # {} /\ t.args.batch_size > 1
        shuffled == t.args.shuffle_buffer_size # {}
    IN  IF t.mode = "batch_autotune" THEN FirstN(unread, 1)
        ELSE IF t.args.weights # {} \/ (shuffled /\ bucketed) THEN unread
        ELSE IF shuffled
             THEN UNION {FirstN(unread, n) : n \in t.args.shuffle_buffer_size}
        ELSE IF bucketed
             THEN {i \in unread : \A width \in t.args.length_bucket_width :
                      \A j \in unread :
                          j < i => BucketOf(ExampleAt(t, j), width)
                                     # BucketOf(ExampleAt(t, i), width)}
        ELSE FirstN(unread, 1)

\* the batches of the examples kept: batch_size examples each, the last one
\* possibly shorter
NumBatches(dataset, batch_size) == (Len(dataset) + batch_size - 1) \div batch_size

Batch(dataset, batch_size, k) ==
    SubSeq(dataset, (k - 1) * batch_size + 1, Min2(k * batch_size, Len(dataset)))

\* n batches of the dataset read again, starting with batch k and going round
RECURSIVE ExtraBatches(_, _, _, _)
ExtraBatches(dataset, batch_size, k, n) ==
    IF n = 0 THEN <<>>
    ELSE Batch(dataset, batch_size, ((k - 1) % NumBatches(dataset, batch_size)) + 1)
         \o ExtraBatches(dataset, batch_size, k + 1, n - 1)

\* cardinality_multiple ("ensure that the dataset cardinality is a multiple of
\* this value when single_pass is True"): the batches the pipeline delivers
\* once more, from the first one, to reach a multiple
CardinalityPadding(dataset, batch_size, cardinality_multiple) ==
    LET batches == NumBatches(dataset, batch_size)
        missing == (cardinality_multiple - (batches % cardinality_multiple))
                   % cardinality_multiple
    IN  IF batches = 0 THEN <<>>
        ELSE ExtraBatches(dataset, batch_size, 1, missing)

\* dataset.filter(filter_fn), which make_training_dataset appends to
\* transform_fns, on the example the pipeline takes next from the zipped files
FilterExample ==
    /\ train.phase = "reading"
    /\ \E i \in NextExamples(train) :
          LET example == ExampleAt(train, i)
          IN  train' = [train EXCEPT
                          !.cursor = @ + 1,
                          !.read = @ \cup {i},
                          !.dataset = IF ParallelInputter_keep_for_training(
                                             example, train.maximum_length)
                                      THEN Append(@, example) ELSE @]
    /\ UNCHANGED <<inst, threads, callVars, pipeVars>>

\* the end of the files on a single pass: the dataset is exhausted, after the
\* batches that make its cardinality a multiple of cardinality_multiple
EndOfPass ==
    /\ train.phase = "reading"
    /\ train.mode = "single_pass"
    /\ Shard(train) \ train.read = {}
    /\ train' = [train EXCEPT
                    !.phase = "exhausted",
                    !.dataset = @ \o CardinalityPadding(@, train.args.batch_size,
                                                        train.args.cardinality_multiple)]
    /\ UNCHANGED <<inst, threads, callVars, pipeVars>>

\* dataset.repeat(): the files are read again from their first line
Repeat ==
    /\ train.phase = "reading"
    /\ train.mode # "single_pass"
    /\ Shard(train) \ train.read = {}
    /\ train.round <= MaxRounds
    /\ train' = [train EXCEPT !.cursor = 1, !.read = {}, !.round = @ + 1]
    /\ UNCHANGED <<inst, threads, callVars, pipeVars>>

NextTrain == \/ MakeTrainingDataset
             \/ FilterExample
             \/ EndOfPass
             \/ Repeat

SpecTrain == InitTrain /\ [][NextTrain]_vars

----------------------------------------------------------------------------
(* Properties *)

FilterClasses == {"SameFilter", "HasZhFilter", "OverlapFilter", "EmptyFilter", "AllASCII",
                  "ASCIIRatioFilter", "LangFilter", "LenFilter", "LenDiffFilter",
                  "LengthFilter", "LongWordFilter", "AlphabetRatioFilter",
                  "CharacterRatioFilter", "AugumentForZhFilter"}

\* every character of s is white space
AllSpace(s) == \A i \in 1..Len(s) : IsSpace(s[i])

\* C1: whenever a filter returns a value other than None, that value is exactly
\* the pair it was handed: no side of a kept pair is trimmed, lower-cased or
\* otherwise rewritten.
C1_KeptPairUnchanged ==
    (op \in FilterClasses /\ result.kind = "pair") => result.val = <<src, tgt>>

\* SameFilter(lower=True) compared trimmed, lower-cased sides of a pair with outer
\* white space and returned the pair as it came
C1_Witness ==
    /\ op = "SameFilter"
    /\ conf.lower
    /\ src # Strip(src)
    /\ tgt # Lower(tgt)
    /\ result = Pair(src, tgt)

\* C2: EmptyFilter returns None exactly when src.strip() or tgt.strip() is empty,
\* that is when a side holds nothing but white space, and the pair otherwise.
C2_EmptyFilter ==
    op = "EmptyFilter" =>
        /\ result = None <=> (Len(Strip(src)) = 0 \/ Len(Strip(tgt)) = 0)
        /\ result = None <=> (AllSpace(src) \/ AllSpace(tgt))
        /\ result # None => result = Pair(src, tgt)

\* a side made of a space only, the other side with a letter: discarded
C2_Witness ==
    /\ op = "EmptyFilter"
    /\ Len(src) > 0
    /\ AllSpace(src)
    /\ ~AllSpace(tgt)
    /\ result = None

\* C3: for every src, SameFilter(lower=True).filter(src, src.upper()) is None.
C3_SameFilterUpper ==
    (op = "SameFilter" /\ conf.lower /\ tgt = Upper(src)) => result = None

\* C4: for a ratio in (0,1], LenDiffFilter(ratio) with the default length
\* functions keeps a pair iff len(src) <= ratio*len(tgt) and
\* len(tgt) <= ratio*len(src), and returns None otherwise (ratio 0.5, lengths 2
\* and 8: rejected); with one length function on both sides the decision on
\* (tgt, src) is the decision on (src, tgt).
C4_LenDiffFilter ==
    op = "LenDiffFilter" =>
        /\ (conf.src_len_fn = "len" /\ conf.tgt_len_fn = "len"
            /\ conf.ratio.num > 0 /\ conf.ratio.num <= conf.ratio.den) =>
              /\ result = IF /\ Len(src) * conf.ratio.den <= conf.ratio.num * Len(tgt)
                             /\ Len(tgt) * conf.ratio.den <= conf.ratio.num * Len(src)
                          THEN Pair(src, tgt) ELSE None
              /\ (conf.ratio = Q(1, 2) /\ Len(src) = 2 /\ Len(tgt) = 8) => result = None
        /\ conf.src_len_fn = conf.tgt_len_fn =>
              (result = None <=> LenDiffFilter(conf, tgt, src) = None)

\* LenDiffFilter(0.5) on "ab", "abcdefgh": 2 <= 4 but 8 > 1, discarded
C4_Witness ==
    /\ op = "LenDiffFilter"
    /\ conf.ratio = Q(1, 2)
    /\ conf.src_len_fn = "len"
    /\ src = str_ab
    /\ tgt = str_abcdefgh
    /\ result = None

\* the pair p is kept, unchanged, by every filter of the chain
KeptByAll(p) == \A k \in 1..Len(chain) : Filter(chain[k], p[1], p[2]) = Pair(p[1], p[2])

\* C5: a pipeline that applies the chain to each pair of the stream, stopping at
\* the first filter that returns None, writes exactly the input pairs every filter
\* keeps, unchanged and in input order; [EmptyFilter, LenFilter(src_lens=(1,10)),
\* SameFilter()] over [("a","a"), ("hello","world"), ("","x")] writes only
\* ("hello","world"); no filter after the rejecting one is called for a pair.
C5_Pipeline ==
    /\ PipeDone => output = SelectSeq(stream, KeptByAll)
    /\ (PipeDone /\ chain = ExampleChain /\ stream = ExampleStream) =>
           output = << <<str_hello, str_world>> >>
    /\ \A i \in 1..Len(calls) :
           \A k \in 1..(calls[i][2] - 1) :
               Filter(chain[k], stream[calls[i][1]][1], stream[calls[i][1]][2]).kind = "pair"
    /\ \A i, j \in 1..Len(calls) : calls[i] = calls[j] => i = j

\* the example run is over: ("a","a") fell at SameFilter, ("","x") at EmptyFilter
C5_Witness ==
    /\ PipeDone
    /\ chain = ExampleChain
    /\ stream = ExampleStream
    /\ output = << <<str_hello, str_world>> >>
    /\ calls = << <<1, 1>>, <<1, 2>>, <<1, 3>>, <<2, 1>>, <<2, 2>>, <<2, 3>>, <<3, 1>> >>

\* C6: the result of SpaceNormalizer.normalize has no leading or trailing white
\* space, no U+3000 or U+00A0, no run of two or more white-space characters and no
\* ASCII space next to a non-ASCII character; the non-white-space characters of
\* the input are all there, in order. "hello   world" gives "hello world" and
\* "ni hao" + space + "shi jie" in ideographs gives the four ideographs.
C6_SpaceNormalizer ==
    op = "SpaceNormalizer" =>
        LET out == result.val[1] IN
        /\ result.kind = "text"
        /\ Len(out) > 0 => (~IsSpace(out[1]) /\ ~IsSpace(out[Len(out)]))
        /\ \A i \in 1..Len(out) : out[i] # Ch.ideosp /\ out[i] # Ch.nbsp
        /\ \A i \in 1..(Len(out) - 1) : ~(IsSpace(out[i]) /\ IsSpace(out[i + 1]))
        /\ \A i \in 1..Len(out) :
               out[i] = Ch.sp =>
                   /\ i > 1 => is_ascii_char(out[i - 1])
                   /\ i < Len(out) => is_ascii_char(out[i + 1])
        /\ SelectSeq(out, LAMBDA c : ~IsSpace(c)) = SelectSeq(text, LAMBDA c : ~IsSpace(c))
        /\ text = str_hello3world => out = str_hello_world
        /\ text = str_nihao_shijie => out = str_nihaoshijie

\* the space between two ideographs was removed
C6_Witness ==
    /\ op = "SpaceNormalizer"
    /\ passes = 1
    /\ text = str_nihao_shijie
    /\ result = Text(str_nihaoshijie)

\* the characters NoPrintNormalizer deletes: U+0000..U+0008, U+000A..U+001F, U+007F
Deleted == (0..8) \cup (10..31) \cup {127}

\* C7: NoPrintNormalizer.normalize(s) is s with exactly the characters of Deleted
\* removed; the tab and every non-ASCII character stay, in order, so the number
\* of tab-separated fields is unchanged; "a\x00b\x1fc" gives "abc".
C7_NoPrintNormalizer ==
    op = "NoPrintNormalizer" =>
        LET out == result.val[1] IN
        /\ result.kind = "text"
        /\ out = SelectSeq(text, LAMBDA c : c \notin Deleted)
        /\ \A c \in Chars(text) \ Deleted : Count(out, c) = Count(text, c)
        /\ Chars(out) \cap Deleted = {}
        /\ Len(SplitOn(out, Ch.tab)) = Len(SplitOn(text, Ch.tab))
        /\ text = str_a0b1fc => out = str_abc

\* NUL and U+001F were deleted from between the letters
C7_Witness ==
    /\ op = "NoPrintNormalizer"
    /\ passes = 1
    /\ text = str_a0b1fc
    /\ result = Text(str_abc)

\* C8: SpaceNormalizer.normalize and NoPrintNormalizer.normalize are idempotent:
\* handed its own output, the normalizer returns it as it is.
C8_Idempotent ==
    [][(op \in {"SpaceNormalizer", "NoPrintNormalizer"} /\ passes = 1 /\ passes' = 2)
          => (result' = result /\ result' = Text(text'))]_vars

\* "hello   world" was normalized, and its output normalized again
C8_Witness ==
    /\ op = "SpaceNormalizer"
    /\ passes = 2
    /\ text = str_hello_world
    /\ result = Text(str_hello_world)

\* C9: PairPunctNormalizer.normalize returns its input unchanged, and raises
\* nothing, when the input does not split into exactly two tab-separated fields.
C9_PairPunctTolerant ==
    (op = "PairPunctNormalizer" /\ Len(SplitOn(text, Ch.tab)) # 2) => result = Text(text)

\* C10: Hant2Hans.normalize returns its input unchanged when the input does not
\* split into exactly two tab-separated fields or when both flags are False; on a
\* well-formed pair it converts the configured sides only and the output has
\* exactly one tab.
C10_Hant2Hans ==
    op = "Hant2Hans" =>
        LET fields == SplitOn(text, Ch.tab)
            out    == result.val[1]
        IN  /\ result.kind = "text"
            /\ (Len(fields) # 2 \/ (~conf.norm_src /\ ~conf.norm_tgt)) => out = text
            /\ Len(fields) = 2 =>
                   /\ Count(out, Ch.tab) = 1
                   /\ SplitOn(out, Ch.tab)[1] =
                          IF conf.norm_src THEN hant_2_hans(fields[1]) ELSE fields[1]
                   /\ SplitOn(out, Ch.tab)[2] =
                          IF conf.norm_tgt THEN hant_2_hans(fields[2]) ELSE fields[2]

\* norm_src only: the Traditional ideograph of src was converted, that of tgt kept
C10_Witness ==
    /\ op = "Hant2Hans"
    /\ passes = 1
    /\ conf.norm_src
    /\ ~conf.norm_tgt
    /\ text = <<Ch.guo_hant, Ch.tab, Ch.guo_hant>>
    /\ result = Text(<<Ch.guo_hans, Ch.tab, Ch.guo_hant>>)


\* the characters of punct_pairs
Brackets == UNION {{punct_pairs[k][1], punct_pairs[k][2]} : k \in 1..Len(punct_pairs)}

\* the positions of character c in s
Positions(s, c) == {i \in 1..Len(s) : s[i] = c}

\* the two sides PairPunctNormalizer.normalize was handed, and those it returned
SidesIn == SplitOn(text, Ch.tab)

SidesOut == SplitOn(result.val[1], Ch.tab)

\* C11: for every pair of punct_pairs and each side, a side holding exactly one
\* opening bracket, followed after a phrase by exactly one closing bracket of the
\* same pair, and no other bracket, is returned unchanged (one phrase in straight
\* double quotes included).
C11_MatchedPairKept ==
    (op = "PairPunctNormalizer" /\ passes = 1 /\ Len(SidesIn) = 2) =>
        /\ result.kind = "text"
        /\ \A side \in 1..2 : \A k \in 1..Len(punct_pairs) :
               LET s == SidesIn[side]
                   l == punct_pairs[k][1]
                   r == punct_pairs[k][2]
                   at == Positions(s, l) \cup Positions(s, r)
               IN  (/\ \E i, j \in 1..Len(s) :
                           /\ i + 1 < j
                           /\ s[i] = l
                           /\ s[j] = r
                           /\ at = {i, j}
                    /\ \A i \in 1..Len(s) : s[i] \in Brackets => i \in at)
                   => SidesOut[side] = s

\* the brackets of the pairs that punct_pairs lists before pair k
EarlierBrackets(k) ==
    UNION {{punct_pairs[m][1], punct_pairs[m][2]} : m \in 1..(k - 1)}

\* s without the characters of chars
Without(s, chars) == SelectSeq(s, LAMBDA c : c \notin chars)

\* C12 as stated: a side holding several opening brackets of one pair, no two
\* of them adjacent, and no closing bracket of that pair, comes back with one
\* opening bracket fewer, whatever the text between them is.
C12_FirstUnmatchedOnlyAsStated ==
    (op = "PairPunctNormalizer" /\ passes = 1 /\ Len(SidesIn) = 2) =>
        /\ result.kind = "text"
        /\ \A side \in 1..2 : \A k \in 1..Len(punct_pairs) :
               LET s == SidesIn[side]
                   l == punct_pairs[k][1]
                   r == punct_pairs[k][2]
                   at == Positions(s, l)
               IN  (/\ l # r
                    /\ Cardinality(at) >= 2
                    /\ \A i \in at : i + 1 \notin at
                    /\ Positions(s, r) = {})
                   => Count(SidesOut[side], l) = Cardinality(at) - 1

\* C12: in one call of PairPunctNormalizer.normalize, a side holding several
\* opening brackets of one pair and no closing bracket of that pair, where the
\* text between each two of them holds a character that is no bracket of a pair
\* listed earlier in punct_pairs, comes back with the first of them deleted and
\* the others in place: apart from the brackets of the other pairs, the output
\* is the input without its first opening bracket.
C12_FirstUnmatchedOnly ==
    (op = "PairPunctNormalizer" /\ passes = 1 /\ Len(SidesIn) = 2) =>
        /\ result.kind = "text"
        /\ \A side \in 1..2 : \A k \in 1..Len(punct_pairs) :
               LET s == SidesIn[side]
                   l == punct_pairs[k][1]
                   r == punct_pairs[k][2]
                   at == Positions(s, l)
                   first == CHOOSE i \in at : \A j \in at : i <= j
                   others == Brackets \ {l}
               IN  (/\ l # r
                    /\ Cardinality(at) >= 2
                    /\ Positions(s, r) = {}
                    /\ \A i, j \in at : i < j =>
                          \E m \in (i + 1)..(j - 1) : s[m] \notin EarlierBrackets(k) \cup {l})
                   => /\ Count(SidesOut[side], l) = Cardinality(at) - 1
                      /\ Without(SidesOut[side], others)
                           = Without(SubSeq(s, 1, first - 1) \o SubSeq(s, first + 1, Len(s)),
                                     others)

\* "(a(" as src: the first parenthesis was deleted, the second is still there
C12_Witness ==
    /\ op = "PairPunctNormalizer"
    /\ passes = 1
    /\ text = <<Ch.lparen, Ch.a, Ch.lparen, Ch.tab>>
    /\ result = Text(<<Ch.a, Ch.lparen, Ch.tab>>)


\* every alphabetic character of s is of the script
AllOfScript(s, script) == \A i \in 1..Len(s) : IsAlphabetic(s[i]) => InScript(s[i], script)

\* C13: CharacterRatioFilter(["zh","en"], thresholds=[1,1]) is constructed, with
\* zh read as Han and en as Latin, and its filter keeps a pair whose src has
\* alphabetic characters, all Han, and whose tgt has alphabetic characters, all
\* Latin (the four ideographs with "hello world"), and rejects a pair whose src
\* mixes scripts (two ideographs and "world", with "hello").
C13_LanguageCodes ==
    (/\ op \in {"CharacterRatioFilter", "CharacterRatioFilter.__init__"}
     /\ conf.scripts = <<"zh", "en">>
     /\ conf.thresholds = <<Q(1, 1), Q(1, 1)>>) =>
        /\ op = "CharacterRatioFilter"
        /\ (src = str_nihaoshijie /\ tgt = str_hello_world) => result = Pair(src, tgt)
        /\ (src = str_nihao_world /\ tgt = str_hello) => result = None
        /\ ~AllOfScript(src, "Han") => result = None


\* 0 <= q <= 1
IsFraction(q) == q.num >= 0 /\ q.num <= q.den

\* C14: a misconfigured ratio filter does not outlive its construction: whenever
\* filter has been called on an ASCIIRatioFilter or AlphabetRatioFilter, its
\* threshold is a fraction in [0,1], and whenever it has been called on a
\* CharacterRatioFilter, there are as many thresholds as scripts, each in [0,1].
C14_FailFast ==
    /\ op \in {"ASCIIRatioFilter", "AlphabetRatioFilter"} => IsFraction(conf.threshold)
    /\ op = "CharacterRatioFilter" =>
           /\ Len(conf.thresholds) = Len(conf.scripts)
           /\ \A i \in 1..Len(conf.thresholds) : IsFraction(conf.thresholds[i])
           /\ result.kind # "raise"


\* s is empty or, for an instance that leaves white space out, holds nothing else
NothingToCount(c, s) ==
    \/ Len(s) = 0
    \/ /\ c.class = "AlphabetRatioFilter"
       /\ c.exclude_whitespace
       /\ \A i \in 1..Len(s) : IsWhiteSpace(s[i])

\* C15: ASCIIRatioFilter, AlphabetRatioFilter and CharacterRatioFilter do not
\* raise a division error on a pair with a side that is empty (or, with
\* exclude_whitespace=True, all white space).
C15_NoDivisionError ==
    (/\ op \in {"ASCIIRatioFilter", "AlphabetRatioFilter", "CharacterRatioFilter"}
     /\ NothingToCount(conf, src) \/ NothingToCount(conf, tgt)) =>
        result # Raise("ZeroDivisionError")


\* C16: in every interleaving of threads calling one shared Filter or Normalizer
\* instance, a call that returns gives the result it gives when run alone on the
\* instance as constructed, and the instance's attributes are the same before and
\* after the call.
C16_SharedInstance ==
    [][\A t \in DOMAIN threads :
          (threads[t].pc = "running" /\ threads'[t].pc = "returned") =>
              /\ threads'[t].res = Call(conf, threads[t].arg)
              /\ inst = conf
              /\ inst' = inst]_vars

\* two threads were inside the instance at the same time, on different arguments,
\* and both have returned
C16_Witness ==
    \E t, u \in DOMAIN threads :
        /\ t # u
        /\ threads[t].pc = "returned" /\ threads[t].overlapped
        /\ threads[u].pc = "returned" /\ threads[u].overlapped
        /\ threads[t].arg # threads[u].arg
        /\ threads[t].res # threads[u].res

\* C17: whatever calls were made on the instance before, the outcome of a call
\* (the pair, the transformed string, or None) is the outcome a freshly constructed
\* instance of the same configuration gives, so the same argument gets the same
\* outcome every time.
C17_HistoryIndependent ==
    \A t \in DOMAIN threads :
        threads[t].pc = "returned" =>
            /\ threads[t].res = Call(conf, threads[t].arg)
            /\ \A u \in DOMAIN threads :
                   (threads[u].pc = "returned" /\ threads[u].arg = threads[t].arg)
                       => threads[u].res = threads[t].res

\* a thread has returned from its second call after another thread's calls, each on
\* a different argument, and this call discarded its pair or changed its string
C17_Witness ==
    \E t, u \in DOMAIN threads :
        /\ t # u
        /\ threads[t].pc = "returned" /\ threads[t].done = MaxCalls
        /\ threads[u].pc = "returned" /\ threads[u].done >= 1
        /\ threads[t].arg # threads[u].arg
        /\ \/ threads[t].res = None
           \/ threads[t].res.kind = "text" /\ threads[t].res.val # threads[t].arg


\* the number of maximal runs of characters that are not white space
Words(s) == Cardinality({i \in 1..Len(s) : ~IsSpace(s[i]) /\ (i = 1 \/ IsSpace(s[i - 1]))})

\* the length the configured length function gives
Measured(fn, s) == IF fn = "len" THEN Len(s) ELSE Words(s)

\* C18: LenFilter and LengthFilter return None whenever the src length, by the
\* src length function, is below the src minimum or above the src maximum, or the
\* tgt length is below the tgt minimum or above the tgt maximum; a bound of None
\* constrains nothing and a length equal to a bound is inside: a pair inside all
\* its bounds is kept by LenFilter, and by LengthFilter when the ratio holds.
C18_LengthBounds ==
    op \in {"LenFilter", "LengthFilter"} =>
        LET src_len == Measured(conf.src_len_fn, src)
            tgt_len == Measured(conf.tgt_len_fn, tgt)
            outside == \/ \E m \in conf.src_min_len : src_len < m
                       \/ \E m \in conf.src_max_len : src_len > m
                       \/ \E m \in conf.tgt_min_len : tgt_len < m
                       \/ \E m \in conf.tgt_max_len : tgt_len > m
        IN  /\ outside => result = None
            /\ (op = "LenFilter" /\ ~outside) => result = Pair(src, tgt)
            /\ (/\ op = "LengthFilter"
                /\ ~outside
                /\ src_len * conf.ratio.den <= conf.ratio.num * tgt_len
                /\ tgt_len * conf.ratio.den <= conf.ratio.num * src_len)
                   => result = Pair(src, tgt)

\* LenFilter(src_lens=(2, 2)) kept a pair whose src has exactly two characters
C18_Witness ==
    /\ op = "LenFilter"
    /\ conf.src_min_len = {2}
    /\ conf.src_max_len = {2}
    /\ conf.tgt_min_len = {}
    /\ Len(src) = 2
    /\ result = Pair(src, tgt)


\* the number of alphabetic characters of s over the number of characters of s,
\* white space left out of the latter when exclude_whitespace is set
AlphabetFraction(c, s) ==
    Q(Cardinality({i \in 1..Len(s) : IsAlphabetic(s[i])}),
      Cardinality({i \in 1..Len(s) : ~(c.exclude_whitespace /\ IsWhiteSpace(s[i]))}))

\* p >= q for fractions with denominators that are not negative
AtLeast(p, q) == p.num * q.den >= q.num * p.den

\* C19: on non-empty sides AlphabetRatioFilter returns the pair if and only if
\* score(src) >= threshold and score(tgt) >= threshold, and None otherwise, where
\* score(s) is the alphabetic characters of s over len(s), or over the characters
\* of s that are not white space when exclude_whitespace is True; the score lies
\* in [0,1].
C19_AlphabetRatio ==
    (op = "AlphabetRatioFilter" /\ Len(src) > 0 /\ Len(tgt) > 0) =>
        LET score_src == AlphabetFraction(conf, src)
            score_tgt == AlphabetFraction(conf, tgt)
        IN  /\ result \in {Pair(src, tgt), None}
            /\ result = Pair(src, tgt) <=>
                   (AtLeast(score_src, conf.threshold) /\ AtLeast(score_tgt, conf.threshold))
            /\ score_src.num <= score_src.den
            /\ score_tgt.num <= score_tgt.den

\* the number of ASCII characters of s over len(s) is above the threshold q
AsciiAbove(s, q) == Cardinality({i \in 1..Len(s) : s[i] < 128}) * q.den > q.num * Len(s)

\* C20: on non-empty sides ASCIIRatioFilter returns None if and only if
\* (filter_src and n_ascii(src)/len(src) > threshold) or (filter_tgt and
\* n_ascii(tgt)/len(tgt) > threshold), and the pair otherwise; with
\* filter_src=False and filter_tgt=True the outcome is the same whatever string
\* stands in place of src.
C20_AsciiRatioSides ==
    op = "ASCIIRatioFilter" =>
        /\ (Len(src) > 0 /\ Len(tgt) > 0) =>
               /\ result = None <=>
                      \/ conf.filter_src /\ AsciiAbove(src, conf.threshold)
                      \/ conf.filter_tgt /\ AsciiAbove(tgt, conf.threshold)
               /\ result # None => result = Pair(src, tgt)
        /\ (~conf.filter_src /\ conf.filter_tgt) =>
               \A other \in Strings(FilterChars, MaxLen) :
                   ASCIIRatioFilter(conf, other, tgt).kind = result.kind

\* the default flags: src is all ASCII, tgt holds no ASCII character, pair kept
C20_Witness ==
    /\ op = "ASCIIRatioFilter"
    /\ ~conf.filter_src
    /\ conf.filter_tgt
    /\ conf.threshold = Q(67, 100)
    /\ src = <<Ch.a, Ch.one>>
    /\ tgt = <<Ch.ni>>
    /\ result = Pair(src, tgt)

\* s has a run of more than m characters without white space, that is a
\* whitespace-delimited token longer than m
HasLongToken(s, m) ==
    \E i \in 1..Len(s) : \E j \in i..Len(s) :
        /\ j - i + 1 > m
        /\ \A k \in i..j : ~IsSpace(s[k])

\* C21: on every pair, a side that is empty or all white space included,
\* LongWordFilter.filter returns None if and only if a side whose maximum is not
\* None has a whitespace-delimited token longer than that maximum, and the pair
\* otherwise, without raising.
C21_LongWord ==
    op = "LongWordFilter" =>
        LET long == \/ \E m \in conf.src_max_len : HasLongToken(src, m)
                    \/ \E m \in conf.tgt_max_len : HasLongToken(tgt, m)
        IN  result = IF long THEN None ELSE Pair(src, tgt)

\* the positions <<i, j>> of the maximal runs of [a-zA-Z0-9] in s
AlnumRuns(s) ==
    {r \in (1..Len(s)) \X (1..Len(s)) :
        /\ r[1] <= r[2]
        /\ \A k \in r[1]..r[2] : IsEnWordChar(s[k])
        /\ r[1] = 1 \/ ~IsEnWordChar(s[r[1] - 1])
        /\ r[2] = Len(s) \/ ~IsEnWordChar(s[r[2] + 1])}

\* every maximal run of [a-zA-Z0-9] of s is a substring of t
RunsOccurIn(s, t) ==
    \A r \in AlnumRuns(s) :
        \E k \in 0..(Len(t) - (r[2] - r[1] + 1)) :
            \A d \in 0..(r[2] - r[1]) : t[k + 1 + d] = s[r[1] + d]

\* C22: AugumentForZhFilter.filter returns the pair if and only if every maximal
\* run of [a-zA-Z0-9] of src is a substring of tgt and every such run of tgt is a
\* substring of src, and None otherwise; the decision on (tgt, src) is the one on
\* (src, tgt), and a pair without any ASCII letter or digit is kept.
C22_AugumentForZh ==
    op = "AugumentForZhFilter" =>
        /\ result = IF RunsOccurIn(src, tgt) /\ RunsOccurIn(tgt, src)
                    THEN Pair(src, tgt) ELSE None
        /\ AugumentForZhFilter(conf, tgt, src).kind = result.kind
        /\ (AlnumRuns(src) = {} /\ AlnumRuns(tgt) = {}) => result = Pair(src, tgt)

\* "a" is in "a1", but "a1" is not in "a": rejected by the check of tgt's words
C22_Witness ==
    /\ op = "AugumentForZhFilter"
    /\ src = <<Ch.a>>
    /\ tgt = <<Ch.a, Ch.one>>
    /\ result = None

\* the positions of the alphabetic characters of s
AlphaAt(s) == {i \in 1..Len(s) : IsAlphabetic(s[i])}

\* the fraction of the alphabetic characters of s that are of the script, 0 when
\* s has no alphabetic character
ScriptFraction(s, script) ==
    IF AlphaAt(s) = {} THEN Q(0, 1)
    ELSE Q(Cardinality({i \in AlphaAt(s) : InScript(s[i], script)}), Cardinality(AlphaAt(s)))

\* C23: CharacterRatioFilter.filter, on an instance with a threshold for each of
\* its two scripts, returns None if and only if score(src, 0) < thresholds[0] or
\* score(tgt, 1) < thresholds[1], score being the fraction of the side's alphabetic
\* characters that are of the side's script, 0.0 without alphabetic character; a
\* side without alphabetic character is rejected for every positive threshold and
\* passes with a threshold <= 0.
C23_CharacterRatio ==
    (op = "CharacterRatioFilter" /\ Len(conf.thresholds) = 2) =>
        LET s1 == ScriptFraction(src, conf.scripts[1])
            s2 == ScriptFraction(tgt, conf.scripts[2])
            t1 == conf.thresholds[1]
            t2 == conf.thresholds[2]
        IN  /\ result = IF ~AtLeast(s1, t1) \/ ~AtLeast(s2, t2) THEN None ELSE Pair(src, tgt)
            /\ (AlphaAt(src) = {} /\ t1.num > 0) => result = None
            /\ (AlphaAt(tgt) = {} /\ t2.num > 0) => result = None
            /\ (AlphaAt(src) = {} /\ AlphaAt(tgt) = {} /\ t1.num <= 0 /\ t2.num <= 0)
                   => result = Pair(src, tgt)

\* thresholds 1/2: a src of one digit has score 0.0 and the pair is rejected,
\* whatever the Latin letter of tgt scores
C23_Witness ==
    /\ op = "CharacterRatioFilter"
    /\ conf.thresholds = <<Q(1, 2), Q(1, 2)>>
    /\ src = <<Ch.one>>
    /\ tgt = <<Ch.a>>
    /\ result = None

\* side i of example e passes: it defines no length, or its length is positive
\* and not above the maximum set for the side
SidePasses(e, maximum_length, i) ==
    \/ e[i] = {}
    \/ \E n \in e[i] : /\ n >= 1
                       /\ \/ maximum_length[i] = {}
                          \/ \E m \in maximum_length[i] : n <= m

\* the first k zipped examples that pass on both sides, in the order of the files
RECURSIVE PassingUpTo(_, _)
PassingUpTo(t, k) ==
    IF k = 0 THEN <<>>
    ELSE LET e == ExampleAt(t, k)
         IN  IF SidePasses(e, t.maximum_length, 1) /\ SidePasses(e, t.maximum_length, 2)
             THEN Append(PassingUpTo(t, k - 1), e)
             ELSE PassingUpTo(t, k - 1)

\* the call passes the defaults for num_shards, shuffle_buffer_size,
\* length_bucket_width, cardinality_multiple and weights: the pipeline reads every
\* example once, in the order of the files
PlainPipeline(t) ==
    /\ t.args.num_shards = 1
    /\ t.args.shuffle_buffer_size = {}
    /\ t.args.length_bucket_width = {}
    /\ t.args.cardinality_multiple = 1
    /\ t.args.weights = {}

\* C24 as stated: the training dataset holds only examples that pass
\* keep_for_training, and on a single pass, whatever the arguments of the call, it
\* holds exactly the passing examples among the first ones of the files as far as
\* read, in the order of the input
C24_KeepForTrainingAsStated ==
    train.phase \in {"reading", "exhausted"} =>
        /\ \A i \in 1..Len(train.dataset) :
              /\ SidePasses(train.dataset[i], train.maximum_length, 1)
              /\ SidePasses(train.dataset[i], train.maximum_length, 2)
        /\ train.mode = "single_pass" =>
              train.dataset = PassingUpTo(train, train.cursor - 1)

\* C24: whatever the arguments of the call, the training dataset holds only
\* examples of the files that pass keep_for_training (on each side that defines a
\* length, the length is above 0 and, when a maximum is set, at most the
\* maximum); on a single pass of a call that neither shards, shuffles, buckets by
\* length, pads the cardinality nor samples by weights, it holds exactly the
\* passing examples read so far, in the order of the input
C24_KeepForTraining ==
    train.phase \in {"reading", "exhausted"} =>
        /\ \A i \in 1..Len(train.dataset) :
              /\ SidePasses(train.dataset[i], train.maximum_length, 1)
              /\ SidePasses(train.dataset[i], train.maximum_length, 2)
              /\ \E k \in Shard(train) : train.dataset[i] = ExampleAt(train, k)
        /\ (train.mode = "single_pass" /\ PlainPipeline(train)) =>
              /\ train.read = 1..(train.cursor - 1)
              /\ train.dataset = PassingUpTo(train, train.cursor - 1)

\* C24 witness: the files of the test are exhausted with maxima 3 and 4 and the
\* default arguments; of the four examples only the second (3 tokens, 1 token)
\* is in the dataset
C24_Witness ==
    /\ train.phase = "exhausted"
    /\ train.features_file = TestFeaturesFile
    /\ train.labels_file = TestLabelsFile
    /\ train.maximum_length = <<{3}, {4}>>
    /\ PlainPipeline(train)
    /\ train.read = 1..4
    /\ train.dataset = <<(<<{3}, {1}>>)>>

\* make_training_dataset has returned or raised, outside batch_autotune_mode
TrainingCalled ==
    /\ train.phase \in {"raised", "reading", "exhausted"}
    /\ train.mode # "batch_autotune"

\* the call raised RuntimeError with a message that mentions "same size", and no
\* dataset was returned
RaisedSameSize ==
    /\ train.phase = "raised"
    /\ train.error \in
         {"RuntimeError: Parallel datasets do not have the same size",
          AnnotationSizeError("example_weights"),
          AnnotationSizeError("train_alignments")}
    /\ train.dataset = <<>>

\* both inputters report the size of their file and the two sizes differ
KnownSizesDiffer ==
    /\ train.counts[1] /\ train.counts[2]
    /\ Len(train.features_file) # Len(train.labels_file)

\* the sizes the call can know: the line counts the inputters report and the line
\* counts of the annotation files
KnownSizes ==
    (IF train.counts[1] THEN {Len(train.features_file)} ELSE {})
    \cup (IF train.counts[2] THEN {Len(train.labels_file)} ELSE {})
    \cup AnnotationLines(train.annotation_files)

\* C25, as stated: outside batch-autotune mode the call raises the "same size"
\* RuntimeError whenever the known sizes of the features and labels files differ
\* or an annotation file has a line count different from the number of examples,
\* and never when all known sizes agree
C25_SameSizeAsStated ==
    TrainingCalled =>
        /\ (\/ KnownSizesDiffer
            \/ \E n \in AnnotationLines(train.annotation_files) :
                    n # Min2(Len(train.features_file), Len(train.labels_file)))
               => RaisedSameSize
        /\ Cardinality(KnownSizes) <= 1 => train.phase # "raised"

\* C25, amended: outside batch-autotune mode the call raises the "same size"
\* RuntimeError, and returns no dataset, exactly when the known sizes of the
\* features and labels files differ, or an inputter reports the size of the
\* examples and an annotation file has a different line count; when neither
\* inputter reports a size the annotation files are not compared
C25_SameSize ==
    TrainingCalled =>
        /\ RaisedSameSize <=>
              \/ KnownSizesDiffer
              \/ /\ train.counts[1] \/ train.counts[2]
                 /\ \E n \in AnnotationLines(train.annotation_files) : \E k \in KnownSizes : n # k
        /\ train.phase = "raised" <=>
              (train.counts[1] \/ train.counts[2]) /\ Cardinality(KnownSizes) > 1

\* C25 witness: features and labels have the same known number of lines, the
\* annotation file has another, and the call raised
C25_Witness ==
    /\ TrainingCalled
    /\ train.counts = <<TRUE, TRUE>>
    /\ Len(train.features_file) = Len(train.labels_file)
    /\ \E n \in AnnotationLines(train.annotation_files) : n # Len(train.features_file)
    /\ RaisedSameSize

\* the LenFilter and the LenDiffFilter built from the arguments of LengthFilter c
LenFilterOf(c) ==
    NewLenFilter(<<c.src_min_len, c.src_max_len>>, <<c.tgt_min_len, c.tgt_max_len>>,
                 c.src_len_fn, c.tgt_len_fn)
LenDiffFilterOf(c) == NewLenDiffFilter(c.ratio, c.src_len_fn, c.tgt_len_fn)

\* C26: LengthFilter returns the pair exactly when the LenFilter with its bounds
\* and length functions keeps the pair and the LenDiffFilter with its ratio and
\* length functions keeps it, and returns None otherwise
C26_LengthComposition ==
    op = "LengthFilter" =>
        result = IF /\ LenFilter(LenFilterOf(conf), src, tgt) = Pair(src, tgt)
                    /\ LenDiffFilter(LenDiffFilterOf(conf), src, tgt) = Pair(src, tgt)
                 THEN Pair(src, tgt) ELSE None

\* C26 witness: LengthFilter returned None on a pair its ratio allows, because a
\* length is outside the bounds
C26_Witness ==
    /\ op = "LengthFilter"
    /\ LenFilter(LenFilterOf(conf), src, tgt) = None
    /\ LenDiffFilter(LenDiffFilterOf(conf), src, tgt) = Pair(src, tgt)
    /\ result = None

\* C27: with a ratio below 1, LenDiffFilter and LengthFilter keep a pair only when
\* both lengths are 0; with ratio 1 they keep a pair only when the two lengths are
\* equal; a kept pair of different positive lengths has a ratio above 1
C27_RatioBelowOne ==
    (op \in {"LenDiffFilter", "LengthFilter"} /\ result = Pair(src, tgt)) =>
        LET len_src == Measured(conf.src_len_fn, src)
            len_tgt == Measured(conf.tgt_len_fn, tgt)
        IN  /\ conf.ratio.num < conf.ratio.den => len_src = 0 /\ len_tgt = 0
            /\ conf.ratio.num = conf.ratio.den => len_src = len_tgt
            /\ (len_src # len_tgt /\ len_src > 0 /\ len_tgt > 0)
                   => conf.ratio.num > conf.ratio.den

\* C27 witness: LenDiffFilter with ratio 1/2 rejected a pair whose two sides have
\* the same positive length
C27_Witness ==
    /\ op = "LenDiffFilter"
    /\ conf.ratio = Q(1, 2)
    /\ Len(src) = Len(tgt) /\ Len(src) > 0
    /\ conf.src_len_fn = "len" /\ conf.tgt_len_fn = "len"
    /\ result = None

\* the length of the longest whitespace-delimited token of s, 0 without token
LongestToken(s) ==
    CHOOSE n \in 0..Len(s) : (n = 0 \/ HasLongToken(s, n - 1)) /\ ~HasLongToken(s, n)

\* a measured value with the threshold it is compared with; sense "max" when the
\* filter rejects values above the threshold, "min" when it rejects values below
Measure(value, threshold, sense) == [value |-> value, threshold |-> threshold, sense |-> sense]

\* the bounds of c that are set, each with the length it bounds
BoundMeasures(c, src_len, tgt_len) ==
    {Measure(Q(src_len, 1), Q(m, 1), "min") : m \in c.src_min_len}
    \cup {Measure(Q(src_len, 1), Q(m, 1), "max") : m \in c.src_max_len}
    \cup {Measure(Q(tgt_len, 1), Q(m, 1), "min") : m \in c.tgt_min_len}
    \cup {Measure(Q(tgt_len, 1), Q(m, 1), "max") : m \in c.tgt_max_len}

\* len_a against ratio * len_b, the product the code computes, in both directions
RatioMeasures(c, src_len, tgt_len) ==
    {Measure(Q(src_len, 1), Product(c.ratio, tgt_len), "max"),
     Measure(Q(tgt_len, 1), Product(c.ratio, src_len), "max")}

\* every value the threshold filter c measures on the pair <<s, t>>
Measures(c, s, t) ==
    CASE c.class = "OverlapFilter" ->
           {Measure(SeqRatio(s, t), c.ratio, "max")}
      [] c.class = "ASCIIRatioFilter" ->
           (IF c.filter_src
            THEN {Measure(Q(Cardinality({i \in 1..Len(s) : s[i] < 128}), Len(s)),
                          c.threshold, "max")}
            ELSE {})
           \cup (IF c.filter_tgt
                 THEN {Measure(Q(Cardinality({i \in 1..Len(t) : t[i] < 128}), Len(t)),
                               c.threshold, "max")}
                 ELSE {})
      [] c.class = "AlphabetRatioFilter" ->
           {Measure(AlphabetFraction(c, s), c.threshold, "min"),
            Measure(AlphabetFraction(c, t), c.threshold, "min")}
      [] c.class = "CharacterRatioFilter" ->
           {Measure(ScriptFraction(s, c.scripts[1]), c.thresholds[1], "min"),
            Measure(ScriptFraction(t, c.scripts[2]), c.thresholds[2], "min")}
      [] c.class = "LenDiffFilter" ->
           RatioMeasures(c, Measured(c.src_len_fn, s), Measured(c.tgt_len_fn, t))
      [] c.class = "LengthFilter" ->
           BoundMeasures(c, Measured(c.src_len_fn, s), Measured(c.tgt_len_fn, t))
           \cup RatioMeasures(c, Measured(c.src_len_fn, s), Measured(c.tgt_len_fn, t))
      [] c.class = "LenFilter" ->
           BoundMeasures(c, Measured(c.src_len_fn, s), Measured(c.tgt_len_fn, t))
      [] c.class = "LongWordFilter" ->
           {Measure(Q(LongestToken(s), 1), Q(m, 1), "max") : m \in c.src_max_len}
           \cup {Measure(Q(LongestToken(t), 1), Q(m, 1), "max") : m \in c.tgt_max_len}

\* the filters that compare a measured value with a threshold
ThresholdFilters == {"OverlapFilter", "ASCIIRatioFilter", "AlphabetRatioFilter",
                     "CharacterRatioFilter", "LenDiffFilter", "LengthFilter",
                     "LenFilter", "LongWordFilter"}

\* the measured value is exactly the threshold (a threshold that is a double is
\* the product of a ratio filter, and the value a length)
AtThreshold(m) ==
    IF IsDouble(m.threshold) THEN IntIsFloat(m.value.num, m.threshold)
    ELSE m.value.num * m.threshold.den = m.threshold.num * m.value.den

\* the measured value is strictly on the rejected side of the threshold
BeyondThreshold(m) ==
    IF IsDouble(m.threshold) THEN ~IntLeqFloat(m.value.num, m.threshold)
    ELSE IF m.sense = "max" THEN QLess(m.threshold, m.value)
    ELSE QLess(m.value, m.threshold)

\* C28: a threshold filter keeps a pair whose measured value equals the configured
\* threshold: when every value the filter measures on the pair is defined, one of
\* them is exactly at its threshold and none is strictly beyond its threshold,
\* the filter returns the pair (OverlapFilter, ASCIIRatioFilter,
\* AlphabetRatioFilter, CharacterRatioFilter, LenDiffFilter, LengthFilter,
\* LenFilter and LongWordFilter alike)
C28_BoundaryKept ==
    (/\ op \in ThresholdFilters
     /\ op = "CharacterRatioFilter" => Len(conf.thresholds) = 2
     /\ \A m \in Measures(conf, src, tgt) : m.value.den > 0
     /\ op = "LongWordFilter" =>
            /\ conf.src_max_len # {} => LongestToken(src) > 0
            /\ conf.tgt_max_len # {} => LongestToken(tgt) > 0
     /\ \E m \in Measures(conf, src, tgt) : AtThreshold(m)
     /\ \A m \in Measures(conf, src, tgt) : ~BeyondThreshold(m))
        => result = Pair(src, tgt)

\* C28 witness: OverlapFilter(ratio=1/2) kept a pair whose similarity is exactly
\* 1/2 (two characters each, one of them shared)
C28_Witness ==
    /\ op = "OverlapFilter"
    /\ conf.ratio = Q(1, 2)
    /\ Len(src) = 2 /\ Len(tgt) = 2
    /\ SeqRatio(src, tgt) = Q(2, 4)
    /\ result = Pair(src, tgt)

MeasuringClasses == {"ASCIIRatioFilter", "AlphabetRatioFilter", "LongWordFilter"}

\* the measuring filter c finds nothing to measure on s: no character, no character
\* but white space when white space is left out, no token
Bare(c, s) ==
    CASE c.class = "ASCIIRatioFilter" -> Len(s) = 0
      [] c.class = "AlphabetRatioFilter" ->
           IF c.exclude_whitespace THEN \A i \in 1..Len(s) : IsWhiteSpace(s[i])
           ELSE Len(s) = 0
      [] c.class = "LongWordFilter" -> AllSpace(s)

\* a chain with EmptyFilter in front has called a measuring filter: it returned
\* None or the pair
GuardedCallReturns ==
    (/\ Len(chain) >= 1
     /\ chain[1].class = "EmptyFilter"
     /\ op \in MeasuringClasses)
        => LET called == stream[calls[Len(calls)][1]]
           IN  result \in {None, Pair(called[1], called[2])}

\* a chain starts, with a measuring filter in front of EmptyFilter, on a pair
\* whose src is empty or all white space so that the filter has nothing to measure
UnguardedStart ==
    /\ op = "none" /\ pos = 1 /\ step = 1
    /\ Len(chain) = 2 /\ Len(stream) >= 1
    /\ chain[1] \in MeasuringFilters
    /\ chain[2].class = "EmptyFilter"
    /\ AllSpace(src)
    /\ Bare(chain[1], src)

\* C29: with EmptyFilter first in the chain, ASCIIRatioFilter, AlphabetRatioFilter
\* (with or without exclude_whitespace) and LongWordFilter return None or the pair
\* on every pair that reaches them and never raise; with the measuring filter in
\* front of EmptyFilter instead, a run that starts on a pair whose src is empty or
\* all white space ends in an exception of that filter
C29_EmptyFilterFirst ==
    /\ []GuardedCallReturns
    /\ UnguardedStart ~> (result.kind = "raise" /\ op = chain[1].class /\ pos = 1)

\* C29 witness: EmptyFilter, first in the chain, dropped a pair with an empty or
\* all-white-space side, and the measuring filter behind it has returned on the
\* second pair
C29_Witness ==
    /\ Len(chain) = 2
    /\ chain[1].class = "EmptyFilter"
    /\ chain[2] \in MeasuringFilters
    /\ Len(stream) = 2
    /\ Bare(chain[2], stream[1][1])
    /\ calls = << <<1, 1>>, <<2, 1>>, <<2, 2>> >>
    /\ op \in MeasuringClasses
    /\ result \in {None, Pair(stream[2][1], stream[2][2])}

\* out is what is left of in after deleting some of its bracket characters: the
\* characters that are no bracket are all there, in their order
RECURSIVE BracketsDeleted(_, _)
BracketsDeleted(in, out) ==
    IF in = <<>> THEN out = <<>>
    ELSE \/ /\ out # <<>>
            /\ Head(in) = Head(out)
            /\ BracketsDeleted(Tail(in), Tail(out))
         \/ /\ Head(in) \in Brackets
            /\ BracketsDeleted(Tail(in), out)

\* the fields a side is paired with to see that the other side does not depend on it
OtherFields == Strings(PairChars \ {Ch.tab}, 1)

\* C30: on a string with exactly one tab PairPunctNormalizer.normalize returns a
\* string with exactly one tab; its src field is the same whatever the tgt field
\* is, and its tgt field the same whatever the src field is; each field is its input
\* field with some bracket characters deleted, every other character kept in order;
\* a field without bracket character is returned unchanged
C30_PairPunctFrame ==
    (op = "PairPunctNormalizer" /\ passes = 1 /\ Count(text, Ch.tab) = 1) =>
        /\ result.kind = "text"
        /\ Count(result.val[1], Ch.tab) = 1
        /\ \A u \in OtherFields :
              /\ SplitOn(PairPunctNormalize(SidesIn[1] \o <<Ch.tab>> \o u).val[1], Ch.tab)[1]
                     = SidesOut[1]
              /\ SplitOn(PairPunctNormalize(u \o <<Ch.tab>> \o SidesIn[2]).val[1], Ch.tab)[2]
                     = SidesOut[2]
        /\ \A side \in 1..2 :
              /\ BracketsDeleted(SidesIn[side], SidesOut[side])
              /\ (\A i \in 1..Len(SidesIn[side]) : SidesIn[side][i] \notin Brackets)
                     => SidesOut[side] = SidesIn[side]

\* C30 witness: "(" as src and ")" as tgt do not make a pair across the tab: each
\* side lost its bracket, the tab is all that is left
C30_Witness ==
    /\ op = "PairPunctNormalizer"
    /\ passes = 1
    /\ text = <<Ch.lparen, Ch.tab, Ch.rparen>>
    /\ result = Text(<<Ch.tab>>)

====
